---- MODULE Spec2Model ----
(***************************************************************************)
(* State-machine model of the piano trainer's session engine:              *)
(* src/App.tsx (first App component, lines 1-743) and the generation       *)
(* handlers of src/components/ControlPanel.tsx.                            *)
(*                                                                         *)
(* One action models one event handler run to completion, together with    *)
(* the React effects its state changes trigger (the refs mirror the state  *)
(* at every event, App.tsx:108-117).  Timers are pending callbacks kept in *)
(* scheduling order; a callback may fire once no earlier-scheduled         *)
(* callback with an equal or shorter delay is still pending.               *)
(***************************************************************************)
EXTENDS Integers, Sequences, FiniteSets, TLC

\* ---------------------------------------------------------------- bounds
\* Note-ons in a run of Spec, SpecLesson, SpecExam and SpecAnswer, and
\* content requests in a run of Spec and SpecSessions; note-ons in a run of
\* SpecKeyboard.
MaxNoteOns == 2
MaxLessonNoteOns == 3
MaxExamNoteOns == 2
MaxAnswerNoteOns == 3
MaxRequests == 2
MaxSessionRequests == 3
MaxKeyNoteOns == 1
\* Calls of initialize in a run of SpecAudio.
MaxInitCalls == 4
\* Note-ons in a run of SpecPointerAndKey.
MaxPointerKeyNoteOns == 2
\* Note-ons in a run of SpecRestart.
MaxRestartNoteOns == 4
\* Note-ons in a run of SpecEviction.
MaxEvictionNoteOns == 3
\* Note-ons in a run of SpecAppend.
MaxAppendNoteOns == 11
\* Note-ons in a run of SpecEmptyStep.
MaxEmptyStepNoteOns == 3
\* Highest MIDI note in a run of SpecSpelling.
MaxSpellingMidi == 131
\* Note-ons, and note-ons of held keys, in a run of SpecHeld.
MaxHeldNoteOns == 2
\* Note-ons in a run of SpecKeyDown.
MaxKeyDownNoteOns == 1
\* Note-ons in a run of SpecNoteOff.
MaxNoteOffNoteOns == 3
\* Note-ons in a run of SpecEnter.
MaxEnterNoteOns == 2
\* Note-ons in a run of SpecLedger: one more than the ledger holds.
MaxLedgerNoteOns == 11
\* Held notes and pattern entries in a run of SpecMatch.
MaxHeld == 3
MaxPatternLen == 3

\* ------------------------------------------------------ program constants
HistoryLimit == 10
MistakeDelay == 500
MistakeFadeDelay == 500
ExamCleanupDelay == 600
LessonCleanupDelay == 600
ReleaseDelay == 4000
ReleaseFadeDelay == 500
HintDelay == 15000
SkipDelay == 15000
SkipStepDelay == 30000

\* ------------------------------------------------------------ note names
NOTES == <<"C", "C#", "D", "D#", "E", "F", "F#", "G", "G#", "A", "A#", "B">>

\* Fault injection for NormalizeIsIdempotent: a spelling mapped onto
\* another spelling of the map.
ENHARMONIC_MAP_Chained ==
  [n \in {"Cb", "Db", "Eb", "Fb", "Gb", "Ab", "Bb", "E#", "B#"} |->
     CASE n = "Cb" -> "B"  [] n = "Db" -> "C#" [] n = "Eb" -> "D#"
       [] n = "Fb" -> "E#" [] n = "Gb" -> "F#" [] n = "Ab" -> "G#"
       [] n = "Bb" -> "A#" [] n = "E#" -> "F"  [] n = "B#" -> "C"]

\* Fault injection for NormalizeGivesCanonical: the map without the
\* spellings whose natural is a white key.
ENHARMONIC_MAP_BlackKeys ==
  [n \in {"Db", "Eb", "Gb", "Ab", "Bb"} |->
     CASE n = "Db" -> "C#" [] n = "Eb" -> "D#" [] n = "Gb" -> "F#"
       [] n = "Ab" -> "G#" [] n = "Bb" -> "A#"]

ENHARMONIC_MAP ==
  [n \in {"Cb", "Db", "Eb", "Fb", "Gb", "Ab", "Bb", "E#", "B#"} |->
     CASE n = "Cb" -> "B"  [] n = "Db" -> "C#" [] n = "Eb" -> "D#"
       [] n = "Fb" -> "E"  [] n = "Gb" -> "F#" [] n = "Ab" -> "G#"
       [] n = "Bb" -> "A#" [] n = "E#" -> "F"  [] n = "B#" -> "C"]

\* A note name is <<name, octave>>: the two groups of the pattern
\* /^([A-G][b#]?)(-?\d+)?$/.
normalizeNoteName(note) ==
  IF note[1] \in DOMAIN ENHARMONIC_MAP
    THEN <<ENHARMONIC_MAP[note[1]], note[2]>>
    ELSE note

\* The same function on the string itself. note.match of the pattern
\* /^([A-G][b#]?)(-?\d+)?$/: <<>> for no match, else the two groups, the
\* second one "" when the octave is absent.
RECURSIVE IsDigits(_)
IsDigits(str) ==
  IF str = "" THEN TRUE
  ELSE Head(str) \in {"0", "1", "2", "3", "4", "5", "6", "7", "8", "9"} /\ IsDigits(Tail(str))

IsOctave(str) ==
  \/ str = ""
  \/ str # "" /\ Head(str) = "-" /\ Tail(str) # "" /\ IsDigits(Tail(str))
  \/ str # "" /\ Head(str) # "-" /\ IsDigits(str)

matchNoteName(note) ==
  IF note = "" THEN <<>>
  ELSE IF Head(note) \notin {"A", "B", "C", "D", "E", "F", "G"} THEN <<>>
  ELSE LET nameLen == IF Len(note) >= 2 /\ Head(Tail(note)) \in {"b", "#"} THEN 2 ELSE 1
           name == SubSeq(note, 1, nameLen)
           octave == SubSeq(note, nameLen + 1, Len(note))
       IN  IF IsOctave(octave) THEN <<name, octave>> ELSE <<>>

normalizeNoteString(note) ==
  LET match == matchNoteName(note)
  IN  IF match = <<>> THEN note
      ELSE IF match[1] \in DOMAIN ENHARMONIC_MAP
        THEN ENHARMONIC_MAP[match[1]] \o match[2]
        ELSE note

\* The text of an integer in a template literal.
RECURSIVE DigitsOf(_)
DigitsOf(n) ==
  LET digit == <<"0", "1", "2", "3", "4", "5", "6", "7", "8", "9">>[(n % 10) + 1]
  IN  IF n < 10 THEN digit ELSE DigitsOf(n \div 10) \o digit

NumberText(n) == IF n < 0 THEN "-" \o DigitsOf(-n) ELSE DigitsOf(n)

\* noteName of playNote as the string it is: `${canonicalNote}${canonicalOctave}`.
noteName(midi) == NOTES[(midi % 12) + 1] \o NumberText((midi \div 12) - 1)

\* noteName of playNote: NOTES[midi % 12] and floor(midi / 12) - 1.
CanonicalName(midi) == <<NOTES[(midi % 12) + 1], (midi \div 12) - 1>>

Range(s) == {s[i] : i \in 1..Len(s)}

\* Fault injection for LedgerBounded: the ledger appended without a cut.
SliceLastKeepsAll(s, n) == s

\* Fault injection for AppendedInOrder: slice(0, n), the first n elements.
SliceFirst(s, n) ==
  IF Len(s) <= n THEN s ELSE SubSeq(s, 1, n)

\* Fault injection for EmptyStepNeverCompletes: the last n elements for
\* n = 0 as well.
SliceLastOfZeroIsEmpty(s, n) ==
  IF Len(s) <= n THEN s ELSE SubSeq(s, Len(s) - n + 1, Len(s))

\* Array.prototype.slice(-n): the last n elements; slice(-0) is slice(0).
SliceLast(s, n) ==
  IF n = 0 \/ Len(s) <= n THEN s ELSE SubSeq(s, Len(s) - n + 1, Len(s))

\* ------------------------------------------------------- pattern matcher
RECURSIVE TryRoots(_, _, _, _)
TryRoots(roots, playedMidis, pattern, strictLength) ==
  IF roots = {} THEN FALSE
  ELSE LET root == CHOOSE r \in roots : \A o \in roots : r <= o
           intervals == {m - root : m \in playedMidis}
           isSubset == \A i \in intervals : i \in Range(pattern)
       IN  IF ~isSubset
             THEN TryRoots(roots \ {root}, playedMidis, pattern, strictLength)
           ELSE IF strictLength
             THEN IF Cardinality(playedMidis) = Len(pattern) THEN TRUE
                  ELSE TryRoots(roots \ {root}, playedMidis, pattern, strictLength)
           ELSE TRUE

isPatternMatch(playedMidis, pattern, strictLength) ==
  IF playedMidis = {} THEN FALSE
  ELSE TryRoots(playedMidis, playedMidis, pattern, strictLength)

\* isPatternMatch, App.tsx:12-34, on the array it is given: the roots are
\* tried in the order of the array.
RECURSIVE TryRootsFrom(_, _, _, _)
TryRootsFrom(k, playedMidis, pattern, strictLength) ==
  IF k > Len(playedMidis) THEN FALSE
  ELSE LET root == playedMidis[k]
           intervals == [i \in 1..Len(playedMidis) |-> playedMidis[i] - root]
           isSubset == \A i \in 1..Len(intervals) : intervals[i] \in Range(pattern)
       IN  IF ~isSubset
             THEN TryRootsFrom(k + 1, playedMidis, pattern, strictLength)
           ELSE IF strictLength
             THEN IF Len(intervals) = Len(pattern) THEN TRUE
                  ELSE TryRootsFrom(k + 1, playedMidis, pattern, strictLength)
           ELSE TRUE

\* Fault injection for MatchIsRootSearch: only the first note is tried as
\* the root.
isPatternMatchFirstRoot(playedMidis, pattern, strictLength) ==
  IF Len(playedMidis) = 0 THEN FALSE
  ELSE LET root == playedMidis[1]
           isSubset == \A i \in 1..Len(playedMidis) : playedMidis[i] - root \in Range(pattern)
       IN  isSubset /\ (strictLength => Len(playedMidis) = Len(pattern))

\* Fault injection for StrictImpliesNonStrict: the strict length test made
\* before the subset test.
isPatternMatchLengthFirst(playedMidis, pattern, strictLength) ==
  IF Len(playedMidis) = 0 THEN FALSE
  ELSE IF strictLength THEN Len(playedMidis) = Len(pattern)
  ELSE TryRootsFrom(1, playedMidis, pattern, FALSE)

\* Fault injection for MatchIsTranspositionInvariant: intervals taken
\* between pitch classes.
isPatternMatchByPitchClass(playedMidis, pattern, strictLength) ==
  IF Len(playedMidis) = 0 THEN FALSE
  ELSE TryRootsFrom(1, [i \in 1..Len(playedMidis) |-> playedMidis[i] % 12],
                    pattern, strictLength)

isPatternMatchArray(playedMidis, pattern, strictLength) ==
  IF Len(playedMidis) = 0 THEN FALSE
  ELSE TryRootsFrom(1, playedMidis, pattern, strictLength)

\* --------------------------------------------------------------- content
\* What the content provider can return: one two-step lesson (the second
\* step spelled with a flat) and one exam of a pitch question and a
\* discrete-choice question (empty pattern, types.ts:52).
Lessons ==
  << << [targets |-> << <<"C", 4>>, <<"E", 4>> >>],
        [targets |-> << <<"Fb", 4>> >>] >> >>

\* A lesson the provider can return as well: one step whose first target
\* is repeated.
RepeatLessons ==
  << << [targets |-> << <<"C", 4>>, <<"C", 4>>, <<"E", 4>> >>] >> >>

\* A lesson the provider can return as well: its second step has no
\* targets.
EmptyStepLessons ==
  << << [targets |-> << <<"C", 4>> >>],
        [targets |-> << >>],
        [targets |-> << <<"E", 4>> >>] >> >>

Exams ==
  << << [type |-> "interval", pattern |-> <<0, 4>>],
        [type |-> "quiz", pattern |-> <<>>] >> >>

\* The keys the pointer plays: C4, E4, F4.
Midis == {60, 64, 65}

NoLesson == [id |-> 0, obj |-> 0]
NoExam == [id |-> 0, obj |-> 0, currentIndex |-> 0]

VARIABLES
  activeMidis,      \* App.tsx:38   HeldNoteSet
  inputHistory,     \* App.tsx:52   Input History Ledger
  currentLesson,    \* App.tsx:55   [id: index in Lessons (0: null), obj: the response it came with]
  currentStepIndex, \* App.tsx:56
  isStepComplete,   \* App.tsx:57
  canSkipStep,      \* App.tsx:58
  playedSequence,   \* App.tsx:61
  isExamMode,       \* App.tsx:64
  currentExam,      \* App.tsx:65   [id: index in Exams (0: null), obj, currentIndex]
  examFeedback,     \* App.tsx:66
  examHintState,    \* App.tsx:70
  isLoading,        \* App.tsx:39
  isCancelledRef,   \* ControlPanel.tsx:102
  pending,          \* content-provider calls awaiting their response
  timers,           \* pending setTimeout callbacks, in scheduling order
  nextId,           \* number of history ids handed out (App.tsx:352)
  toneCalls,        \* number of calls of audioService.playNote (App.tsx:308)
  nextReq,          \* number of content requests issued
  baseOctave,       \* App.tsx:37
  shiftLeftPressed, \* App.tsx:105
  shiftRightPressed,\* App.tsx:106
  input,            \* the arguments of a function applied on its own
  output,           \* <<>>, or <<its results>>
  initialized,      \* audioService.ts:19
  reverb,           \* audioService.ts:17  the call that constructed it (0: null)
  filter,           \* audioService.ts:18
  sampler,          \* audioService.ts:16
  initCalls,        \* the calls of initialize that passed its guard: where each one is
  chains            \* the calls that constructed a sampler

vars == <<activeMidis, inputHistory, currentLesson, currentStepIndex,
          isStepComplete, canSkipStep, playedSequence, isExamMode,
          currentExam, examFeedback, examHintState, isLoading,
          isCancelledRef, pending, timers, nextId, toneCalls, nextReq,
          baseOctave, shiftLeftPressed, shiftRightPressed, input, output,
          initialized, reverb, filter, sampler, initCalls, chains>>

\* The state of the computer keyboard, written only by handleKeyDown and
\* handleKeyUp.
keyboard == <<baseOctave, shiftLeftPressed, shiftRightPressed>>

\* A function applied on its own, outside the running App.
applied == <<input, output>>

\* The tone engine, audioService.ts:15-19, and the calls inside it.
audio == <<initialized, reverb, filter, sampler, initCalls, chains>>

\* The App and the tone engine after construction.
InitApp ==
  /\ initialized = FALSE
  /\ reverb = 0
  /\ filter = 0
  /\ sampler = 0
  /\ initCalls = <<>>
  /\ chains = {}
  /\ activeMidis = {}
  /\ inputHistory = <<>>
  /\ currentLesson = NoLesson
  /\ currentStepIndex = 0
  /\ isStepComplete = FALSE
  /\ canSkipStep = FALSE
  /\ playedSequence = <<>>
  /\ isExamMode = FALSE
  /\ currentExam = NoExam
  /\ examFeedback = "none"
  /\ examHintState = "idle"
  /\ isLoading = FALSE
  /\ isCancelledRef = FALSE
  /\ pending = {}
  /\ timers = <<>>
  /\ nextId = 0
  /\ toneCalls = 0
  /\ nextReq = 0
  /\ baseOctave = 3
  /\ shiftLeftPressed = FALSE
  /\ shiftRightPressed = FALSE

Init == InitApp /\ input = <<>> /\ output = <<>>

\* --------------------------------------------------------------- helpers
LessonActive == currentLesson.id # 0
ExamActive == currentExam.id # 0

Steps(lesson) == (Lessons \o RepeatLessons \o EmptyStepLessons)[lesson.id]
Questions(exam) == Exams[exam.id]
Question(exam) == Questions(exam)[exam.currentIndex + 1]

\* currentStepRef.current (App.tsx:110): undefined (<<>>) or <<step>>.
StepOf(lesson, index) ==
  IF lesson.id # 0 /\ index < Len(Steps(lesson))
    THEN <<Steps(lesson)[index + 1]>>
    ELSE <<>>

\* ---------------------------------------------------------------- timers
\* kind and id are the callback; stale and newer record its provenance:
\* stale once the session or question it was scheduled in was superseded,
\* newer the history ids created since then.
NewTimer(kind, id) == [kind |-> kind, id |-> id, stale |-> FALSE, newer |-> {}]

Delay(t) ==
  CASE t.kind = "mistakeFade"   -> MistakeDelay
    [] t.kind = "mistakeClear"  -> MistakeFadeDelay
    [] t.kind = "examCleanup"   -> ExamCleanupDelay
    [] t.kind = "lessonCleanup" -> LessonCleanupDelay
    [] t.kind = "releaseFade"   -> ReleaseDelay
    [] t.kind = "releaseRemove" -> ReleaseFadeDelay
    [] t.kind = "hint"          -> HintDelay
    [] t.kind = "skip"          -> SkipDelay
    [] t.kind = "skipStep"      -> SkipStepDelay

\* Timers fire in the order of their due times.
CanFire(i) == \A j \in 1..(i - 1) : Delay(timers[j]) > Delay(timers[i])

RemoveAt(s, i) == [k \in 1..(Len(s) - 1) |-> IF k < i THEN s[k] ELSE s[k + 1]]

Cancel(tms, kinds) == SelectSeq(tms, LAMBDA t : t.kind \notin kinds)

\* The session or question the pending callbacks belong to is superseded.
Supersede(tms) == [i \in 1..Len(tms) |-> [tms[i] EXCEPT !.stale = TRUE]]

NoteCreated(tms, id) ==
  [i \in 1..Len(tms) |->
     [tms[i] EXCEPT !.newer = IF tms[i].stale THEN @ \cup {id} ELSE @]]

\* --------------------------------------------------------------- effects
\* Exam Hint Timer effect, App.tsx:215-233.
HintDeps ==
  <<isExamMode, IF ExamActive THEN currentExam.currentIndex ELSE -1,
    examFeedback, examHintState>>

\* Fault injection for HintPhaseOrder: the effect without its cleanup, so
\* that the timers of the previous run stay pending.
HintEffectWithoutCleanup(tms) ==
  IF HintDeps' = HintDeps THEN tms
  ELSE IF isExamMode' /\ ExamActive' /\ examFeedback' # "success"
    THEN IF examHintState' = "idle"
           THEN Append(tms, NewTimer("hint", 0))
         ELSE IF examHintState' = "hintActive"
           THEN Append(tms, NewTimer("skip", 0))
         ELSE tms
    ELSE tms

\* Fault injection for HintFrozenOnSuccess: the effect without its test of
\* the feedback.
HintEffectIgnoresSuccess(tms) ==
  IF HintDeps' = HintDeps THEN tms
  ELSE LET kept == Cancel(tms, {"hint", "skip"})
       IN  IF isExamMode' /\ ExamActive'
             THEN IF examHintState' = "idle"
                    THEN Append(kept, NewTimer("hint", 0))
                  ELSE IF examHintState' = "hintActive"
                    THEN Append(kept, NewTimer("skip", 0))
                  ELSE kept
             ELSE kept

HintEffect(tms) ==
  IF HintDeps' = HintDeps THEN tms
  ELSE LET kept == Cancel(tms, {"hint", "skip"})
       IN  IF isExamMode' /\ ExamActive' /\ examFeedback' # "success"
             THEN IF examHintState' = "idle"
                    THEN Append(kept, NewTimer("hint", 0))
                  ELSE IF examHintState' = "hintActive"
                    THEN Append(kept, NewTimer("skip", 0))
                  ELSE kept
             ELSE kept

\* Cleanup effect for Lesson Success, App.tsx:236-260.
MarkLessonSuccess(hist, targetCount) ==
  LET startIndex == IF Len(hist) - targetCount > 0 THEN Len(hist) - targetCount ELSE 0
  IN  [i \in 1..Len(hist) |->
         IF i - 1 >= startIndex
           THEN [hist[i] EXCEPT !.status = "success"]
           ELSE [hist[i] EXCEPT !.isFading = TRUE]]

LessonCleanupEffect(st) ==
  IF <<isStepComplete, currentLesson>>' = <<isStepComplete, currentLesson>> THEN st
  ELSE LET kept == Cancel(st.tms, {"lessonCleanup"})
           step == StepOf(currentLesson', currentStepIndex')
       IN  IF isStepComplete' /\ LessonActive' /\ step # <<>>
             THEN [hist |-> MarkLessonSuccess(st.hist, Len(step[1].targets)),
                   tms |-> Append(kept, NewTimer("lessonCleanup", 0))]
             ELSE [hist |-> st.hist, tms |-> kept]

\* Timer for the "I did it" button, ControlPanel.tsx:161-176.
SkipDeps ==
  <<IF StepOf(currentLesson, currentStepIndex) # <<>>
      THEN <<currentLesson.obj, currentStepIndex>> ELSE <<>>,
    isStepComplete, currentStepIndex>>

\* Fault injection for ManualOverrideAfterGrace: the effect without its
\* cleanup, so that the timer of the previous step stays pending.
SkipEffectWithoutCleanup(st) ==
  IF SkipDeps' = SkipDeps THEN st
  ELSE [skip |-> FALSE,
        tms |-> IF StepOf(currentLesson', currentStepIndex') # <<>> /\ ~isStepComplete'
                  THEN Append(st.tms, NewTimer("skipStep", 0))
                  ELSE st.tms]

SkipEffect(st) ==
  IF SkipDeps' = SkipDeps THEN st
  ELSE LET kept == Cancel(st.tms, {"skipStep"})
       IN  [skip |-> FALSE,
            tms |-> IF StepOf(currentLesson', currentStepIndex') # <<>> /\ ~isStepComplete'
                      THEN Append(kept, NewTimer("skipStep", 0))
                      ELSE kept]

\* The render that follows a handler: hist, tms and skip are the ledger,
\* the timers and canSkipStep as the handler left them; the effects whose
\* dependencies changed then run (ControlPanel's before App's).
Commit(hist, tms, skip) ==
  LET a == SkipEffect([skip |-> skip, tms |-> tms])
      b == HintEffect(a.tms)
      c == LessonCleanupEffect([hist |-> hist, tms |-> b])
  IN  /\ inputHistory' = c.hist
      /\ timers' = c.tms
      /\ canSkipStep' = a.skip
      /\ UNCHANGED <<keyboard, applied, audio>>

\* ------------------------------------------------------ note on and off
\* Smart Validation for Exam Mode, App.tsx:264-301.  st is the feedback,
\* ledger and timers as the running handler has left them; the guard reads
\* examFeedbackRef, which holds the feedback of the last render.
MarkExamSuccess(hist, activeNotes) ==
  [i \in 1..Len(hist) |->
     IF hist[i].midi \in activeNotes /\ ~hist[i].isReleased
       THEN [hist[i] EXCEPT !.status = "success"]
       ELSE [hist[i] EXCEPT !.isFading = TRUE]]

\* Fault injection for SuccessOnStrictMatch: success as soon as the held
\* notes fit into the pattern.
validateExamInputOnSubset(st, activeNotes) ==
  IF ~ExamActive \/ examFeedback = "success" THEN st
  ELSE LET pattern == Question(currentExam).pattern
       IN  IF activeNotes = {} THEN st
           ELSE IF isPatternMatch(activeNotes, pattern, FALSE)
             THEN [st EXCEPT !.fb = "success",
                             !.hist = MarkExamSuccess(st.hist, activeNotes),
                             !.tms = Append(st.tms, NewTimer("examCleanup", 0))]
           ELSE st

validateExamInput(st, activeNotes) ==
  IF ~ExamActive \/ examFeedback = "success" THEN st
  ELSE LET pattern == Question(currentExam).pattern
       IN  IF activeNotes = {} THEN st
           ELSE IF Cardinality(activeNotes) < Len(pattern) THEN st
           ELSE IF isPatternMatch(activeNotes, pattern, TRUE)
             THEN [st EXCEPT !.fb = "success",
                             !.hist = MarkExamSuccess(st.hist, activeNotes),
                             !.tms = Append(st.tms, NewTimer("examCleanup", 0))]
           ELSE st

\* Fault injection for TargetNoteIsSuccess: success only for the target
\* that is next in the sequence.
LessonStatusAtCursor(midi) ==
  LET step == StepOf(currentLesson, currentStepIndex)
      cursor == Len(playedSequence) + 1
  IN  IF LessonActive /\ step # <<>>
         /\ cursor <= Len(step[1].targets)
         /\ normalizeNoteName(CanonicalName(midi)) =
              normalizeNoteName(step[1].targets[cursor])
        THEN "success" ELSE "neutral"

\* Immediate feedback of a new history note, App.tsx:320-350.
LessonStatus(midi) ==
  LET step == StepOf(currentLesson, currentStepIndex)
  IN  IF LessonActive /\ step # <<>>
         /\ normalizeNoteName(CanonicalName(midi)) \in
              {normalizeNoteName(t) : t \in Range(step[1].targets)}
        THEN "success" ELSE "neutral"

ExamChecked == isExamMode /\ ExamActive

\* Fault injection for MistakeSchedulesReset: no mistake once the question
\* is answered.
IsExamMistakeUnanswered(newActiveMidis) ==
  /\ ExamChecked
  /\ examFeedback # "success"
  /\ ~isPatternMatch(newActiveMidis, Question(currentExam).pattern, FALSE)

IsExamMistake(newActiveMidis) ==
  ExamChecked /\ ~isPatternMatch(newActiveMidis, Question(currentExam).pattern, FALSE)

InitialStatus(midi, newActiveMidis) ==
  IF ExamChecked /\ isPatternMatch(newActiveMidis, Question(currentExam).pattern, FALSE)
    THEN "success" ELSE LessonStatus(midi)

\* Fault injection for FirstTargetSlidesWindow: a note that equals the
\* first target but not the next one restarts the sequence.
LessonProgressRestarts(midi) ==
  LET step == StepOf(currentLesson, currentStepIndex)
  IN  IF step # <<>> /\ ~isStepComplete
        THEN LET targets == step[1].targets
                 normalizedTargets == [i \in 1..Len(targets) |-> normalizeNoteName(targets[i])]
                 note == CanonicalName(midi)
                 cursor == Len(playedSequence)
                 newSeq == IF /\ note = normalizedTargets[1]
                              /\ ~(cursor < Len(targets) /\ note = normalizedTargets[cursor + 1])
                             THEN <<note>>
                             ELSE SliceLast(Append(playedSequence, note), Len(targets))
             IN  [seq |-> newSeq,
                  complete |-> isStepComplete \/ newSeq = normalizedTargets]
        ELSE [seq |-> playedSequence, complete |-> isStepComplete]

\* Fault injection for SlidingWindowCompletes: progress kept as a cursor
\* into the targets, which a stray note leaves where it is.
LessonProgressByCursor(midi) ==
  LET step == StepOf(currentLesson, currentStepIndex)
  IN  IF step # <<>> /\ ~isStepComplete
        THEN LET targets == step[1].targets
                 normalizedTargets == [i \in 1..Len(targets) |-> normalizeNoteName(targets[i])]
                 cursor == Len(playedSequence)
                 note == CanonicalName(midi)
                 newSeq == IF cursor < Len(targets) /\ note = normalizedTargets[cursor + 1]
                             THEN Append(playedSequence, note)
                           ELSE IF note = normalizedTargets[1] THEN <<note>>
                           ELSE playedSequence
             IN  [seq |-> newSeq, complete |-> newSeq = normalizedTargets]
        ELSE [seq |-> playedSequence, complete |-> isStepComplete]

\* Fault injection for CompletionIsTerminal: the window keeps sliding after
\* the step is complete.
LessonProgressUnguarded(midi) ==
  LET step == StepOf(currentLesson, currentStepIndex)
  IN  IF step # <<>>
        THEN LET targets == step[1].targets
                 newSeq == SliceLast(Append(playedSequence, CanonicalName(midi)), Len(targets))
                 normalizedTargets == [i \in 1..Len(targets) |-> normalizeNoteName(targets[i])]
             IN  [seq |-> newSeq,
                  complete |-> isStepComplete \/ newSeq = normalizedTargets]
        ELSE [seq |-> playedSequence, complete |-> isStepComplete]

\* Lesson mode logic of playNote, App.tsx:388-399.
LessonProgress(midi) ==
  LET step == StepOf(currentLesson, currentStepIndex)
  IN  IF step # <<>> /\ ~isStepComplete
        THEN LET targets == step[1].targets
                 newSeq == SliceLast(Append(playedSequence, CanonicalName(midi)), Len(targets))
                 normalizedTargets == [i \in 1..Len(targets) |-> normalizeNoteName(targets[i])]
             IN  [seq |-> newSeq,
                  complete |-> isStepComplete \/ newSeq = normalizedTargets]
        ELSE [seq |-> playedSequence, complete |-> isStepComplete]

\* Fault injection for HeldNoteOnChangesNothing: no key counts as held.
HeldNever(midi) == FALSE

\* activeMidisRef.current.has(midi), App.tsx:305.
Held(midi) == midi \in activeMidis

\* playNote for a key that is held: the return of App.tsx:305. The event
\* is recorded in input, nothing else is written.
playNoteHeld(midi) ==
  /\ Held(midi)
  /\ input' = Append(input, midi)
  /\ UNCHANGED <<activeMidis, inputHistory, currentLesson, currentStepIndex,
                 isStepComplete, canSkipStep, playedSequence, isExamMode,
                 currentExam, examFeedback, examHintState, isLoading,
                 isCancelledRef, pending, timers, nextId, toneCalls, nextReq,
                 keyboard, audio, output>>

\* playNote, App.tsx:304-400.
playNote(midi) ==
  /\ ~Held(midi)
  /\ LET newActiveMidis == activeMidis \cup {midi}
         historyId == nextId + 1
         newHistoryNote == [id |-> historyId, midi |-> midi,
                            status |-> InitialStatus(midi, newActiveMidis),
                            isFading |-> FALSE, isReleased |-> FALSE]
         added == [fb |-> examFeedback,
                   hist |-> SliceLast(Append(inputHistory, newHistoryNote), HistoryLimit),
                   tms |-> IF IsExamMistake(newActiveMidis)
                             THEN Append(NoteCreated(timers, historyId), NewTimer("mistakeFade", 0))
                             ELSE NoteCreated(timers, historyId)]
         st == IF isExamMode THEN validateExamInput(added, newActiveMidis) ELSE added
         lesson == IF isExamMode
                     THEN [seq |-> playedSequence, complete |-> isStepComplete]
                     ELSE LessonProgress(midi)
     IN  /\ activeMidis' = newActiveMidis
         /\ nextId' = historyId
         /\ toneCalls' = toneCalls + 1
         /\ examFeedback' = st.fb
         /\ playedSequence' = lesson.seq
         /\ isStepComplete' = lesson.complete
         /\ UNCHANGED <<currentLesson, currentStepIndex, isExamMode, currentExam,
                        examHintState, isLoading, isCancelledRef, pending, nextReq>>
         /\ Commit(st.hist, st.tms, canSkipStep)

\* stopNote, App.tsx:402-441, on the held set, feedback, ledger and timers
\* as the running handler has left them.
LastUnreleased(hist, midi) ==
  LET found == {i \in 1..Len(hist) : hist[i].midi = midi /\ ~hist[i].isReleased}
  IN  IF found = {} THEN 0 ELSE CHOOSE i \in found : \A j \in found : j <= i

\* Fault injection for NoteOffReleasesNewest: the note-off releases the
\* newest unreleased entry, whatever its midi.
stopNoteOnNewestEntry(st, midi) ==
  LET newSet == st.active \ {midi}
      v == IF isExamMode /\ newSet # {}
             THEN validateExamInput([fb |-> st.fb, hist |-> st.hist, tms |-> st.tms], newSet)
             ELSE [fb |-> st.fb, hist |-> st.hist, tms |-> st.tms]
      found == {i \in 1..Len(v.hist) : ~v.hist[i].isReleased}
      realIndex == IF found = {} THEN 0 ELSE CHOOSE i \in found : \A j \in found : j <= i
  IN  IF realIndex = 0
        THEN [active |-> newSet, fb |-> v.fb, hist |-> v.hist, tms |-> v.tms]
        ELSE [active |-> newSet, fb |-> v.fb,
              hist |-> [v.hist EXCEPT ![realIndex].isReleased = TRUE],
              tms |-> Append(v.tms, NewTimer("releaseFade", v.hist[realIndex].id))]

stopNoteOn(st, midi) ==
  LET newSet == st.active \ {midi}
      v == IF isExamMode /\ newSet # {}
             THEN validateExamInput([fb |-> st.fb, hist |-> st.hist, tms |-> st.tms], newSet)
             ELSE [fb |-> st.fb, hist |-> st.hist, tms |-> st.tms]
      realIndex == LastUnreleased(v.hist, midi)
  IN  IF realIndex = 0
        THEN [active |-> newSet, fb |-> v.fb, hist |-> v.hist, tms |-> v.tms]
        ELSE [active |-> newSet, fb |-> v.fb,
              hist |-> [v.hist EXCEPT ![realIndex].isReleased = TRUE],
              tms |-> Append(v.tms, NewTimer("releaseFade", v.hist[realIndex].id))]

RECURSIVE stopNotes(_, _)
stopNotes(st, midis) ==
  IF midis = <<>> THEN st ELSE stopNotes(stopNoteOn(st, Head(midis)), Tail(midis))

StopNotes(midis) ==
  LET st == stopNotes([active |-> activeMidis, fb |-> examFeedback,
                       hist |-> inputHistory, tms |-> timers], midis)
  IN  /\ activeMidis' = st.active
      /\ examFeedback' = st.fb
      /\ UNCHANGED <<currentLesson, currentStepIndex, isStepComplete, playedSequence,
                     isExamMode, currentExam, examHintState, isLoading,
                     isCancelledRef, pending, nextId, toneCalls, nextReq>>
      /\ Commit(st.hist, st.tms, canSkipStep)

\* Pointer on a piano key, App.tsx:609-610.
MouseDown(midi) == playNote(midi)

MouseUp(midi) == StopNotes(<<midi>>)

\* ------------------------------------------------------ session handlers
\* handleHome, App.tsx:121-133.
handleHome ==
  /\ currentLesson' = NoLesson
  /\ currentStepIndex' = 0
  /\ isExamMode' = FALSE
  /\ currentExam' = NoExam
  /\ examFeedback' = "none"
  /\ examHintState' = "idle"
  /\ playedSequence' = <<>>
  /\ activeMidis' = {}
  /\ isLoading' = FALSE
  /\ UNCHANGED <<isStepComplete, isCancelledRef, pending, nextId, toneCalls, nextReq>>
  /\ Commit(<<>>, Supersede(timers), FALSE)

\* Fault injection for MutualExclusion: a lesson start that leaves the exam
\* session in place.
handleLessonStartKeepsExam(lesson) ==
  /\ currentLesson' = lesson
  /\ currentStepIndex' = 0
  /\ playedSequence' = <<>>
  /\ isStepComplete' = FALSE
  /\ isExamMode' = FALSE
  /\ UNCHANGED <<currentExam, activeMidis, examFeedback, examHintState>>
  /\ Commit(<<>>, Supersede(timers), FALSE)

\* handleLessonStart, App.tsx:135-146.
handleLessonStart(lesson) ==
  /\ currentLesson' = lesson
  /\ currentStepIndex' = 0
  /\ playedSequence' = <<>>
  /\ isStepComplete' = FALSE
  /\ isExamMode' = FALSE
  /\ currentExam' = NoExam
  /\ UNCHANGED <<activeMidis, examFeedback, examHintState>>
  /\ Commit(<<>>, Supersede(timers), FALSE)

\* handleExamStart, App.tsx:148-157.
handleExamStart(exam) ==
  /\ currentLesson' = NoLesson
  /\ isExamMode' = TRUE
  /\ currentExam' = exam
  /\ examFeedback' = "none"
  /\ examHintState' = "idle"
  /\ activeMidis' = {}
  /\ UNCHANGED <<currentStepIndex, isStepComplete, playedSequence>>
  /\ Commit(<<>>, Supersede(timers), FALSE)

\* Fault injection for IndicesInRange: the step index advanced without
\* the test of the number of steps.
handleNextStepPastEnd ==
  /\ LessonActive
  /\ UNCHANGED <<activeMidis, isExamMode, currentExam, examFeedback, examHintState,
                 isLoading, isCancelledRef, pending, nextId, toneCalls, nextReq>>
  /\ currentStepIndex' = currentStepIndex + 1
  /\ isStepComplete' = FALSE
  /\ playedSequence' = <<>>
  /\ UNCHANGED currentLesson
  /\ Commit(<<>>, timers, FALSE)

\* handleNextStep, App.tsx:159-172.
handleNextStep ==
  /\ LessonActive
  /\ UNCHANGED <<activeMidis, isExamMode, currentExam, examFeedback, examHintState,
                 isLoading, isCancelledRef, pending, nextId, toneCalls, nextReq>>
  /\ LET nextIndex == currentStepIndex + 1
     IN  IF nextIndex < Len(Steps(currentLesson))
           THEN /\ currentStepIndex' = nextIndex
                /\ isStepComplete' = FALSE
                /\ playedSequence' = <<>>
                /\ UNCHANGED currentLesson
                /\ Commit(<<>>, timers, FALSE)
           ELSE /\ currentLesson' = NoLesson
                /\ currentStepIndex' = 0
                /\ UNCHANGED <<isStepComplete, playedSequence>>
                /\ Commit(inputHistory, Supersede(timers), canSkipStep)

\* Fault injection for WindowSinceStepEntered: the step before is shown
\* with the sequence played on the step that is left.
handlePrevStepKeepsProgress ==
  /\ LessonActive
  /\ currentStepIndex - 1 >= 0
  /\ currentStepIndex' = currentStepIndex - 1
  /\ isStepComplete' = FALSE
  /\ UNCHANGED <<activeMidis, currentLesson, isExamMode, currentExam, examFeedback,
                 examHintState, isLoading, isCancelledRef, pending, nextId, toneCalls, nextReq,
                 playedSequence>>
  /\ Commit(<<>>, timers, FALSE)

\* handlePrevStep, App.tsx:174-184.
handlePrevStep ==
  /\ LessonActive
  /\ currentStepIndex - 1 >= 0
  /\ currentStepIndex' = currentStepIndex - 1
  /\ isStepComplete' = FALSE
  /\ playedSequence' = <<>>
  /\ UNCHANGED <<activeMidis, currentLesson, isExamMode, currentExam, examFeedback,
                 examHintState, isLoading, isCancelledRef, pending, nextId, toneCalls, nextReq>>
  /\ Commit(<<>>, timers, FALSE)

\* Fault injection for ExamAdvances: after the last question the exam
\* starts over.
handleNextExamQuestionWraps ==
  /\ ExamActive
  /\ examFeedback' = "none"
  /\ examHintState' = "idle"
  /\ activeMidis' = {}
  /\ LET nextIndex == currentExam.currentIndex + 1
     IN  currentExam' = [currentExam EXCEPT !.currentIndex =
                           IF nextIndex < Len(Questions(currentExam)) THEN nextIndex ELSE 0]
  /\ UNCHANGED <<currentLesson, currentStepIndex, isStepComplete, playedSequence,
                 isExamMode, isLoading, isCancelledRef, pending, nextId, toneCalls, nextReq>>
  /\ Commit(<<>>, Supersede(timers), FALSE)

\* Fault injection for HintResetOnQuestionChange: a question change that
\* keeps the hint phase.
handleNextExamQuestionKeepsHint ==
  /\ ExamActive
  /\ examFeedback' = "none"
  /\ activeMidis' = {}
  /\ LET nextIndex == currentExam.currentIndex + 1
     IN  IF nextIndex < Len(Questions(currentExam))
           THEN /\ currentExam' = [currentExam EXCEPT !.currentIndex = nextIndex]
                /\ UNCHANGED isExamMode
           ELSE /\ isExamMode' = FALSE
                /\ currentExam' = NoExam
  /\ UNCHANGED <<currentLesson, currentStepIndex, isStepComplete, playedSequence,
                 examHintState, isLoading, isCancelledRef, pending, nextId, toneCalls, nextReq>>
  /\ Commit(<<>>, Supersede(timers), FALSE)

\* handleNextExamQuestion, App.tsx:186-207.
\* Fault injection for ExamModeIffExam: the finished exam is dropped and
\* the flag is left set.
handleNextExamQuestionKeepsMode ==
  /\ ExamActive
  /\ examFeedback' = "none"
  /\ examHintState' = "idle"
  /\ activeMidis' = {}
  /\ LET nextIndex == currentExam.currentIndex + 1
     IN  currentExam' = IF nextIndex < Len(Questions(currentExam))
                          THEN [currentExam EXCEPT !.currentIndex = nextIndex]
                          ELSE NoExam
  /\ UNCHANGED <<isExamMode, currentLesson, currentStepIndex, isStepComplete,
                 playedSequence, isLoading, isCancelledRef, pending, nextId,
                 toneCalls, nextReq>>
  /\ Commit(<<>>, Supersede(timers), FALSE)

handleNextExamQuestion ==
  /\ ExamActive
  /\ examFeedback' = "none"
  /\ examHintState' = "idle"
  /\ activeMidis' = {}
  /\ LET nextIndex == currentExam.currentIndex + 1
     IN  IF nextIndex < Len(Questions(currentExam))
           THEN /\ currentExam' = [currentExam EXCEPT !.currentIndex = nextIndex]
                /\ UNCHANGED isExamMode
           ELSE /\ isExamMode' = FALSE
                /\ currentExam' = NoExam
  /\ UNCHANGED <<currentLesson, currentStepIndex, isStepComplete, playedSequence,
                 isLoading, isCancelledRef, pending, nextId, toneCalls, nextReq>>
  /\ Commit(<<>>, Supersede(timers), FALSE)

\* handleShowHint, App.tsx:210-212.
handleShowHint ==
  /\ examHintState' = "hintActive"
  /\ UNCHANGED <<activeMidis, currentLesson, currentStepIndex, isStepComplete,
                 playedSequence, isExamMode, currentExam, examFeedback,
                 isLoading, isCancelledRef, pending, nextId, toneCalls, nextReq>>
  /\ Commit(inputHistory, timers, canSkipStep)

\* --------------------------------------------------------------- the views
\* What ControlPanel renders (ControlPanel.tsx:345-450): the exam slot, the
\* lesson slot, or the menu.
ExamView == isExamMode /\ ExamActive
LessonView == ~ExamView /\ StepOf(currentLesson, currentStepIndex) # <<>>
MenuView == ~ExamView /\ StepOf(currentLesson, currentStepIndex) = <<>>
PitchControls == ExamView /\ Question(currentExam).type # "quiz"

\* Fault injection for EnterIsGuarded: Enter advances the lesson step
\* whether or not the step is complete.
KeyDownEnterUnguarded ==
  IF LessonActive THEN handleNextStep
  ELSE IF isExamMode /\ examFeedback = "success" THEN handleNextExamQuestion
  ELSE IF isExamMode /\ examHintState = "hintReady" THEN handleShowHint
  ELSE IF isExamMode /\ examHintState = "skipReady" THEN handleNextExamQuestion
  ELSE UNCHANGED vars

\* Enter in handleKeyDown, App.tsx:455-479.
KeyDownEnter ==
  IF LessonActive /\ (isStepComplete \/ canSkipStep) THEN handleNextStep
  ELSE IF isExamMode /\ examFeedback = "success" THEN handleNextExamQuestion
  ELSE IF isExamMode /\ examHintState = "hintReady" THEN handleShowHint
  ELSE IF isExamMode /\ examHintState = "skipReady" THEN handleNextExamQuestion
  ELSE UNCHANGED vars

\* Home button, App.tsx:635-638.
ClickHome == (LessonActive \/ isExamMode) /\ handleHome

\* Next and "I did it" buttons, ControlPanel.tsx:431-441 (showSkipButton
\* is set and cleared together with canSkipStep, ControlPanel.tsx:163-171).
ClickNextStep == LessonView /\ (isStepComplete \/ canSkipStep) /\ handleNextStep

\* Back button, ControlPanel.tsx:412-416.
ClickPrevStep == LessonView /\ currentStepIndex > 0 /\ handlePrevStep

\* Next, Skip and Hint buttons of the exam slot, ControlPanel.tsx:372-400.
ClickExamNext == PitchControls /\ examFeedback = "success" /\ handleNextExamQuestion

ClickExamSkip ==
  /\ PitchControls
  /\ examFeedback # "success"
  /\ examHintState = "skipReady"
  /\ handleNextExamQuestion

ClickExamHint ==
  /\ PitchControls
  /\ examFeedback # "success"
  /\ examHintState = "hintReady"
  /\ handleShowHint

\* ------------------------------------------------------ content generation
NewCall(kind) == [kind |-> kind, req |-> nextReq + 1, cancelled |-> FALSE]

StartCall(kind) ==
  /\ MenuView
  /\ ~isLoading
  /\ isCancelledRef' = FALSE
  /\ isLoading' = TRUE
  /\ pending' = pending \cup {NewCall(kind)}
  /\ nextReq' = nextReq + 1
  /\ UNCHANGED <<activeMidis, inputHistory, currentLesson, currentStepIndex,
                 isStepComplete, canSkipStep, playedSequence, isExamMode,
                 currentExam, examFeedback, examHintState, timers, nextId, toneCalls>>
  /\ UNCHANGED <<keyboard, applied, audio>>

\* handleStartTheory up to its await, ControlPanel.tsx:185-197.
handleStartTheory == StartCall("lesson")

\* handleStartCheck up to its await, ControlPanel.tsx:220-236.
handleStartCheck == StartCall("exam")

\* handleCancelLoading, ControlPanel.tsx:251-255.  cancelled marks the calls
\* that were in flight when the user cancelled.
handleCancelLoading ==
  /\ MenuView
  /\ isLoading
  /\ isCancelledRef' = TRUE
  /\ isLoading' = FALSE
  /\ pending' = {[c EXCEPT !.cancelled = TRUE] : c \in pending}
  /\ UNCHANGED <<activeMidis, inputHistory, currentLesson, currentStepIndex,
                 isStepComplete, canSkipStep, playedSequence, isExamMode,
                 currentExam, examFeedback, examHintState, timers, nextId, toneCalls, nextReq>>
  /\ UNCHANGED <<keyboard, applied, audio>>

SessionUnchanged ==
  UNCHANGED <<activeMidis, inputHistory, currentLesson, currentStepIndex,
              isStepComplete, canSkipStep, playedSequence, isExamMode,
              currentExam, examFeedback, examHintState, timers, keyboard, applied, audio>>

\* Fault injection for NullResponseStartsNothing: the loading flag is
\* cleared only when a lesson came back.
LessonResponseKeepsLoading(call, result) ==
  /\ call \in pending
  /\ call.kind = "lesson"
  /\ pending' = pending \ {call}
  /\ isLoading' = (IF result = 0 THEN isLoading ELSE FALSE)
  /\ UNCHANGED <<isCancelledRef, nextId, toneCalls, nextReq>>
  /\ IF isCancelledRef \/ result = 0
       THEN SessionUnchanged
       ELSE handleLessonStart([id |-> result, obj |-> call.req])

\* handleStartTheory after its await, ControlPanel.tsx:199-208; result is
\* the index of the lesson returned, 0 for null.
LessonResponse(call, result) ==
  /\ call \in pending
  /\ call.kind = "lesson"
  /\ pending' = pending \ {call}
  /\ isLoading' = FALSE
  /\ UNCHANGED <<isCancelledRef, nextId, toneCalls, nextReq>>
  /\ IF isCancelledRef \/ result = 0
       THEN SessionUnchanged
       ELSE handleLessonStart([id |-> result, obj |-> call.req])

\* handleStartCheck after its await, ControlPanel.tsx:238-247.
ExamResponse(call, result) ==
  /\ call \in pending
  /\ call.kind = "exam"
  /\ pending' = pending \ {call}
  /\ isLoading' = FALSE
  /\ UNCHANGED <<isCancelledRef, nextId, toneCalls, nextReq>>
  /\ IF isCancelledRef \/ result = 0
       THEN SessionUnchanged
       ELSE handleExamStart([id |-> result, obj |-> call.req, currentIndex |-> 0])

\* ------------------------------------------------------- timer callbacks
Pending(i, kind) == i \in 1..Len(timers) /\ timers[i].kind = kind /\ CanFire(i)

FrameOfTimer ==
  UNCHANGED <<activeMidis, currentLesson, currentStepIndex, isStepComplete,
              playedSequence, isExamMode, currentExam, examFeedback,
              isLoading, isCancelledRef, pending, nextId, toneCalls, nextReq>>

\* Exam mistake, first callback: fade every entry, App.tsx:370-378.
MistakeFadeFires(i) ==
  /\ Pending(i, "mistakeFade")
  /\ FrameOfTimer /\ UNCHANGED examHintState
  /\ Commit([k \in 1..Len(inputHistory) |-> [inputHistory[k] EXCEPT !.isFading = TRUE]],
            Append(RemoveAt(timers, i), [timers[i] EXCEPT !.kind = "mistakeClear"]),
            canSkipStep)

\* Exam mistake, second callback: clear the ledger, App.tsx:375-377.
MistakeClearFires(i) ==
  /\ Pending(i, "mistakeClear")
  /\ FrameOfTimer /\ UNCHANGED examHintState
  /\ Commit(<<>>, RemoveAt(timers, i), canSkipStep)

\* Removal of the faded entries after a success, App.tsx:297-299 (exam)
\* and App.tsx:254-256 (lesson).
NotFading(hist) == SelectSeq(hist, LAMBDA n : ~n.isFading)

ExamCleanupFires(i) ==
  /\ Pending(i, "examCleanup")
  /\ FrameOfTimer /\ UNCHANGED examHintState
  /\ Commit(NotFading(inputHistory), RemoveAt(timers, i), canSkipStep)

LessonCleanupFires(i) ==
  /\ Pending(i, "lessonCleanup")
  /\ FrameOfTimer /\ UNCHANGED examHintState
  /\ Commit(NotFading(inputHistory), RemoveAt(timers, i), canSkipStep)

\* Release of a history note: fade, App.tsx:427-434, then remove, 431-433.
ReleaseFadeFires(i) ==
  /\ Pending(i, "releaseFade")
  /\ FrameOfTimer /\ UNCHANGED examHintState
  /\ Commit([k \in 1..Len(inputHistory) |->
               IF inputHistory[k].id = timers[i].id
                 THEN [inputHistory[k] EXCEPT !.isFading = TRUE]
                 ELSE inputHistory[k]],
            Append(RemoveAt(timers, i), [timers[i] EXCEPT !.kind = "releaseRemove"]),
            canSkipStep)

\* Fault injection for ReleasedIsEvicted: the removal callback drops every
\* fading entry.
ReleaseRemoveFiresAllFading(i) ==
  /\ Pending(i, "releaseRemove")
  /\ FrameOfTimer /\ UNCHANGED examHintState
  /\ Commit(NotFading(inputHistory), RemoveAt(timers, i), canSkipStep)

ReleaseRemoveFires(i) ==
  /\ Pending(i, "releaseRemove")
  /\ FrameOfTimer /\ UNCHANGED examHintState
  /\ Commit(SelectSeq(inputHistory, LAMBDA n : n.id # timers[i].id),
            RemoveAt(timers, i), canSkipStep)

\* Hint timer, phase 1, App.tsx:221-223, and phase 2, App.tsx:226-228.
HintTimerFires(i) ==
  /\ Pending(i, "hint")
  /\ FrameOfTimer
  /\ examHintState' = "hintReady"
  /\ Commit(inputHistory, RemoveAt(timers, i), canSkipStep)

SkipTimerFires(i) ==
  /\ Pending(i, "skip")
  /\ FrameOfTimer
  /\ examHintState' = "skipReady"
  /\ Commit(inputHistory, RemoveAt(timers, i), canSkipStep)

\* Timer of the "I did it" button, ControlPanel.tsx:169-172.
SkipStepTimerFires(i) ==
  /\ Pending(i, "skipStep")
  /\ FrameOfTimer /\ UNCHANGED examHintState
  /\ Commit(inputHistory, RemoveAt(timers, i), TRUE)

\* ------------------------------------------------------ computer keyboard
\* KEYBOARD_MAP, constants.ts:18-47: a physical key is its semitone, 0..23.
\* The keys pressed here: KeyZ, Minus and BracketRight.
KeyCodes == {0, 20, 23}

\* generatePianoKeys, constants.ts:49-68: the midi of a key of the centre
\* keyboard (codeToNoteMap, App.tsx:82-86).
KeyMidi(octave, semitone) == (octave + 1) * 12 + semitone

NotKeyboardState ==
  UNCHANGED <<activeMidis, inputHistory, currentLesson, currentStepIndex,
              isStepComplete, canSkipStep, playedSequence, isExamMode,
              currentExam, examFeedback, examHintState, isLoading,
              isCancelledRef, pending, timers, nextId, toneCalls, nextReq, applied, audio>>

\* handleKeyDown, ArrowLeft and ArrowRight, App.tsx:481-488.
KeyDownArrowLeft ==
  /\ baseOctave' = IF baseOctave - 1 > 1 THEN baseOctave - 1 ELSE 1
  /\ UNCHANGED <<shiftLeftPressed, shiftRightPressed>>
  /\ NotKeyboardState

\* Fault injection for BaseOctaveClamped: ArrowRight without its upper limit.
KeyDownArrowRightUnclamped ==
  /\ baseOctave' = baseOctave + 1
  /\ UNCHANGED <<shiftLeftPressed, shiftRightPressed>>
  /\ NotKeyboardState

KeyDownArrowRight ==
  /\ baseOctave' = IF baseOctave + 1 < 7 THEN baseOctave + 1 ELSE 7
  /\ UNCHANGED <<shiftLeftPressed, shiftRightPressed>>
  /\ NotKeyboardState

\* handleKeyDown, ShiftLeft and ShiftRight, App.tsx:490-501.
KeyDownShiftLeft ==
  /\ shiftLeftPressed' = (IF baseOctave < 2 THEN shiftLeftPressed ELSE TRUE)
  /\ UNCHANGED <<baseOctave, shiftRightPressed>>
  /\ NotKeyboardState

KeyDownShiftRight ==
  /\ shiftRightPressed' = (IF baseOctave > 6 THEN shiftRightPressed ELSE TRUE)
  /\ UNCHANGED <<baseOctave, shiftLeftPressed>>
  /\ NotKeyboardState

\* handleKeyUp, ShiftLeft and ShiftRight, App.tsx:514-523.
KeyUpShiftLeft ==
  /\ shiftLeftPressed' = FALSE
  /\ UNCHANGED <<baseOctave, shiftRightPressed>>
  /\ NotKeyboardState

KeyUpShiftRight ==
  /\ shiftRightPressed' = FALSE
  /\ UNCHANGED <<baseOctave, shiftLeftPressed>>
  /\ NotKeyboardState

\* handleKeyDown, a note key, App.tsx:503-510.
FinalMidi(semitone) ==
  KeyMidi(baseOctave, semitone)
    - (IF shiftLeftPressed THEN 24 ELSE 0)
    + (IF shiftRightPressed THEN 24 ELSE 0)

KeyDownNote(semitone) == playNote(FinalMidi(semitone))

\* handleKeyUp, a note key, App.tsx:525-532.
KeyUpMidis(semitone) ==
  LET midi == KeyMidi(baseOctave, semitone)
  IN  <<midi, midi - 12, midi + 12, midi - 24, midi + 24>>

KeyUpNote(semitone) == StopNotes(KeyUpMidis(semitone))

\* handleKeyDown as a whole, App.tsx:445-511. An event is its code, its
\* repeat flag, the modifier it carries and whether its target is a text
\* input (here at most one of the three); the code of an event the handler
\* returns on at once is recorded in input.
KeyEventFlags ==
  {[repeat |-> FALSE, modifier |-> "none", targetIsInput |-> FALSE],
   [repeat |-> TRUE, modifier |-> "none", targetIsInput |-> FALSE],
   [repeat |-> FALSE, modifier |-> "ctrl", targetIsInput |-> FALSE],
   [repeat |-> FALSE, modifier |-> "meta", targetIsInput |-> FALSE],
   [repeat |-> FALSE, modifier |-> "alt", targetIsInput |-> FALSE],
   [repeat |-> FALSE, modifier |-> "none", targetIsInput |-> TRUE]}

KeyEvents ==
  {[code |-> code, repeat |-> f.repeat, modifier |-> f.modifier,
    targetIsInput |-> f.targetIsInput] :
     code \in {"Enter", "ArrowRight", "ShiftLeft", "KeyZ"},
     f \in KeyEventFlags}

\* Fault injection for FilteredKeyDownChangesNothing: auto-repeat is let
\* through.
FilteredExceptRepeat(e) == e.modifier # "none" \/ e.targetIsInput

\* e.repeat, e.ctrlKey || e.metaKey || e.altKey, e.target.tagName === 'INPUT'.
Filtered(e) == e.repeat \/ e.modifier # "none" \/ e.targetIsInput

handleKeyDown(e) ==
  IF Filtered(e)
    THEN /\ input' = <<e.code>>
         /\ UNCHANGED <<activeMidis, inputHistory, currentLesson, currentStepIndex,
                        isStepComplete, canSkipStep, playedSequence, isExamMode,
                        currentExam, examFeedback, examHintState, isLoading,
                        isCancelledRef, pending, timers, nextId, toneCalls, nextReq,
                        keyboard, audio, output>>
  ELSE CASE e.code = "Enter" -> KeyDownEnter
         [] e.code = "ArrowRight" -> KeyDownArrowRight
         [] e.code = "ShiftLeft" -> KeyDownShiftLeft
         [] e.code = "KeyZ" -> KeyDownNote(0)

\* ------------------------------------------------------------ next state
\* Every event, with the note-ons and the content requests of a run bounded.
Next ==
  \/ \E midi \in Midis : nextId < MaxNoteOns /\ MouseDown(midi)
  \/ \E midi \in Midis : MouseUp(midi)
  \/ KeyDownEnter
  \/ ClickHome
  \/ ClickNextStep
  \/ ClickPrevStep
  \/ ClickExamNext
  \/ ClickExamSkip
  \/ ClickExamHint
  \/ nextReq < MaxRequests /\ handleStartTheory
  \/ nextReq < MaxRequests /\ handleStartCheck
  \/ handleCancelLoading
  \/ \E call \in pending, result \in 0..Len(Lessons) : LessonResponse(call, result)
  \/ \E call \in pending, result \in 0..Len(Exams) : ExamResponse(call, result)
  \/ \E i \in 1..Len(timers) : MistakeFadeFires(i)
  \/ \E i \in 1..Len(timers) : MistakeClearFires(i)
  \/ \E i \in 1..Len(timers) : ExamCleanupFires(i)
  \/ \E i \in 1..Len(timers) : LessonCleanupFires(i)
  \/ \E i \in 1..Len(timers) : ReleaseFadeFires(i)
  \/ \E i \in 1..Len(timers) : ReleaseRemoveFires(i)
  \/ \E i \in 1..Len(timers) : HintTimerFires(i)
  \/ \E i \in 1..Len(timers) : SkipTimerFires(i)
  \/ \E i \in 1..Len(timers) : SkipStepTimerFires(i)

Spec == Init /\ [][Next]_vars

\* The user asks for one lesson and plays it.
NextLesson ==
  \/ \E midi \in Midis : nextId < MaxLessonNoteOns /\ MouseDown(midi)
  \/ \E midi \in Midis : MouseUp(midi)
  \/ KeyDownEnter
  \/ ClickHome
  \/ ClickNextStep
  \/ ClickPrevStep
  \/ nextReq = 0 /\ handleStartTheory
  \/ \E call \in pending, result \in 0..Len(Lessons) : LessonResponse(call, result)
  \/ \E i \in 1..Len(timers) : LessonCleanupFires(i)
  \/ \E i \in 1..Len(timers) : ReleaseFadeFires(i)
  \/ \E i \in 1..Len(timers) : ReleaseRemoveFires(i)
  \/ \E i \in 1..Len(timers) : SkipStepTimerFires(i)

SpecLesson == Init /\ [][NextLesson]_vars

\* The user asks for one exam and takes it.
NextExam ==
  \/ \E midi \in Midis : nextId < MaxExamNoteOns /\ MouseDown(midi)
  \/ \E midi \in Midis : MouseUp(midi)
  \/ KeyDownEnter
  \/ ClickHome
  \/ ClickExamNext
  \/ ClickExamSkip
  \/ ClickExamHint
  \/ nextReq = 0 /\ handleStartCheck
  \/ \E call \in pending, result \in 0..Len(Exams) : ExamResponse(call, result)
  \/ \E i \in 1..Len(timers) : MistakeFadeFires(i)
  \/ \E i \in 1..Len(timers) : MistakeClearFires(i)
  \/ \E i \in 1..Len(timers) : ExamCleanupFires(i)
  \/ \E i \in 1..Len(timers) : ReleaseFadeFires(i)
  \/ \E i \in 1..Len(timers) : ReleaseRemoveFires(i)
  \/ \E i \in 1..Len(timers) : HintTimerFires(i)
  \/ \E i \in 1..Len(timers) : SkipTimerFires(i)

SpecExam == Init /\ [][NextExam]_vars

\* The user asks for one exam and acts on every question before its 15 s
\* hint timer is due.
NextAnswer ==
  \/ \E midi \in Midis : nextId < MaxAnswerNoteOns /\ MouseDown(midi)
  \/ \E midi \in Midis : MouseUp(midi)
  \/ KeyDownEnter
  \/ ClickHome
  \/ ClickExamNext
  \/ nextReq = 0 /\ handleStartCheck
  \/ \E call \in pending, result \in 0..Len(Exams) : ExamResponse(call, result)
  \/ \E i \in 1..Len(timers) : MistakeFadeFires(i)
  \/ \E i \in 1..Len(timers) : MistakeClearFires(i)
  \/ \E i \in 1..Len(timers) : ExamCleanupFires(i)
  \/ \E i \in 1..Len(timers) : ReleaseFadeFires(i)
  \/ \E i \in 1..Len(timers) : ReleaseRemoveFires(i)

SpecAnswer == Init /\ [][NextAnswer]_vars

\* The user starts, cancels, walks through and leaves sessions without
\* playing a note: steps and questions advance by their skip timers.
NextSessions ==
  \/ KeyDownEnter
  \/ ClickHome
  \/ ClickNextStep
  \/ ClickPrevStep
  \/ ClickExamSkip
  \/ ClickExamHint
  \/ nextReq < MaxSessionRequests /\ handleStartTheory
  \/ nextReq < MaxSessionRequests /\ handleStartCheck
  \/ handleCancelLoading
  \/ \E call \in pending, result \in 0..Len(Lessons) : LessonResponse(call, result)
  \/ \E call \in pending, result \in 0..Len(Exams) : ExamResponse(call, result)
  \/ \E i \in 1..Len(timers) : HintTimerFires(i)
  \/ \E i \in 1..Len(timers) : SkipTimerFires(i)
  \/ \E i \in 1..Len(timers) : SkipStepTimerFires(i)

SpecSessions == Init /\ [][NextSessions]_vars

\* The user plays on the computer keyboard from the menu.
NextKeyboard ==
  \/ KeyDownArrowLeft
  \/ KeyDownArrowRight
  \/ KeyDownShiftLeft
  \/ KeyDownShiftRight
  \/ KeyUpShiftLeft
  \/ KeyUpShiftRight
  \/ \E semitone \in KeyCodes : nextId < MaxKeyNoteOns /\ KeyDownNote(semitone)
  \/ \E semitone \in KeyCodes : KeyUpNote(semitone)
  \/ \E i \in 1..Len(timers) : ReleaseFadeFires(i)
  \/ \E i \in 1..Len(timers) : ReleaseRemoveFires(i)

SpecKeyboard == Init /\ [][NextKeyboard]_vars

\* The user holds C4 with the pointer and plays KeyZ, the C of the base
\* octave 3, with and without the shifts: the key never plays C4 itself.
PointerMidi == 60
KeyZ == 0

NextPointerAndKey ==
  \/ nextId < MaxPointerKeyNoteOns /\ MouseDown(PointerMidi)
  \/ PointerMidi \in activeMidis /\ MouseUp(PointerMidi)
  \/ nextId < MaxPointerKeyNoteOns /\ KeyDownNote(KeyZ)
  \/ KeyUpNote(KeyZ)
  \/ KeyDownShiftLeft
  \/ KeyDownShiftRight
  \/ KeyUpShiftLeft
  \/ KeyUpShiftRight
  \/ \E i \in 1..Len(timers) : ReleaseFadeFires(i)
  \/ \E i \in 1..Len(timers) : ReleaseRemoveFires(i)

SpecPointerAndKey == Init /\ [][NextPointerAndKey]_vars

\* The user asks for one lesson and leaves every step before its 30 s
\* grace period is over: a step is left forward only after it was played.
NextReplay ==
  \/ \E midi \in Midis : nextId < MaxLessonNoteOns /\ MouseDown(midi)
  \/ \E midi \in Midis : MouseUp(midi)
  \/ KeyDownEnter
  \/ ClickHome
  \/ ClickNextStep
  \/ ClickPrevStep
  \/ nextReq = 0 /\ handleStartTheory
  \/ \E call \in pending, result \in 0..Len(Lessons) : LessonResponse(call, result)
  \/ \E i \in 1..Len(timers) : LessonCleanupFires(i)
  \/ \E i \in 1..Len(timers) : ReleaseFadeFires(i)
  \/ \E i \in 1..Len(timers) : ReleaseRemoveFires(i)

SpecReplay == Init /\ [][NextReplay]_vars

\* The user works with the Enter key only: sessions are started, notes are
\* played and held, and every step, question and hint is taken by Enter.
EnterMidis == {60, 64}

NextEnter ==
  \/ \E midi \in EnterMidis : nextId < MaxEnterNoteOns /\ MouseDown(midi)
  \/ KeyDownEnter
  \/ nextReq < MaxSessionRequests /\ handleStartTheory
  \/ nextReq < MaxSessionRequests /\ handleStartCheck
  \/ \E call \in pending, result \in 0..Len(Lessons) : LessonResponse(call, result)
  \/ \E call \in pending, result \in 0..Len(Exams) : ExamResponse(call, result)
  \/ \E i \in 1..Len(timers) : MistakeFadeFires(i)
  \/ \E i \in 1..Len(timers) : MistakeClearFires(i)
  \/ \E i \in 1..Len(timers) : ExamCleanupFires(i)
  \/ \E i \in 1..Len(timers) : LessonCleanupFires(i)
  \/ \E i \in 1..Len(timers) : HintTimerFires(i)
  \/ \E i \in 1..Len(timers) : SkipTimerFires(i)
  \/ \E i \in 1..Len(timers) : SkipStepTimerFires(i)

SpecEnter == Init /\ [][NextEnter]_vars

\* The user takes the lesson with the repeated first target and plays C4
\* and E4, pressing and releasing, faster than any timer.
RestartMidis == {60, 64}

NextRestart ==
  \/ \E midi \in RestartMidis : nextId < MaxRestartNoteOns /\ MouseDown(midi)
  \/ \E midi \in RestartMidis : midi \in activeMidis /\ MouseUp(midi)
  \/ nextReq = 0 /\ handleStartTheory
  \/ \E call \in pending : LessonResponse(call, Len(Lessons) + 1)

SpecRestart == Init /\ [][NextRestart]_vars

\* The user plays and releases C4, E4 and F4 in the menu and on the
\* questions of one exam, faster than any timer.
NextNoteOff ==
  \/ \E midi \in Midis : nextId < MaxNoteOffNoteOns /\ MouseDown(midi)
  \/ \E midi \in Midis : MouseUp(midi)
  \/ nextReq = 0 /\ handleStartCheck
  \/ \E call \in pending, result \in 0..Len(Exams) : ExamResponse(call, result)

SpecNoteOff == Init /\ [][NextNoteOff]_vars

\* The user repeats one piano key from the menu, faster than the 4 s after
\* which a released note leaves the ledger, or slower.
LedgerMidi == 60

NextLedger ==
  \/ nextId < MaxLedgerNoteOns /\ MouseDown(LedgerMidi)
  \/ LedgerMidi \in activeMidis /\ MouseUp(LedgerMidi)
  \/ \E i \in 1..Len(timers) : ReleaseFadeFires(i)
  \/ \E i \in 1..Len(timers) : ReleaseRemoveFires(i)

SpecLedger == Init /\ [][NextLedger]_vars

\* The user repeats one piano key in the menu and in a lesson, and starts
\* and leaves the lesson (each clears the ledger). The browser runs the
\* callback of every timer that is due.
EvictionTimerFires ==
  \/ \E i \in 1..Len(timers) : ReleaseFadeFires(i)
  \/ \E i \in 1..Len(timers) : ReleaseRemoveFires(i)
  \/ \E i \in 1..Len(timers) : SkipStepTimerFires(i)

NextEviction ==
  \/ nextId < MaxEvictionNoteOns /\ MouseDown(LedgerMidi)
  \/ LedgerMidi \in activeMidis /\ MouseUp(LedgerMidi)
  \/ nextReq = 0 /\ handleStartTheory
  \/ \E call \in pending : LessonResponse(call, 1)
  \/ ClickHome
  \/ EvictionTimerFires

SpecEviction == Init /\ [][NextEviction]_vars /\ WF_vars(EvictionTimerFires)

\* The user taps C4 and E4, one key at a time and faster than any timer,
\* in the menu and in the first lesson.
AppendMidis == {60, 64}

NextAppend ==
  \/ \E midi \in AppendMidis :
       nextId < MaxAppendNoteOns /\ activeMidis = {} /\ MouseDown(midi)
  \/ \E midi \in AppendMidis : midi \in activeMidis /\ MouseUp(midi)
  \/ nextReq = 0 /\ handleStartTheory
  \/ \E call \in pending : LessonResponse(call, 1)

SpecAppend == Init /\ [][NextAppend]_vars

\* The user takes the lesson whose second step has no targets, playing C4
\* and E4.
EmptyStepMidis == {60, 64}

NextEmptyStep ==
  \/ \E midi \in EmptyStepMidis : nextId < MaxEmptyStepNoteOns /\ MouseDown(midi)
  \/ \E midi \in EmptyStepMidis : midi \in activeMidis /\ MouseUp(midi)
  \/ KeyDownEnter
  \/ ClickHome
  \/ ClickNextStep
  \/ ClickPrevStep
  \/ nextReq = 0 /\ handleStartTheory
  \/ \E call \in pending : LessonResponse(call, Len(Lessons) + 2)
  \/ \E i \in 1..Len(timers) : LessonCleanupFires(i)
  \/ \E i \in 1..Len(timers) : ReleaseFadeFires(i)
  \/ \E i \in 1..Len(timers) : ReleaseRemoveFires(i)
  \/ \E i \in 1..Len(timers) : SkipStepTimerFires(i)

SpecEmptyStep == Init /\ [][NextEmptyStep]_vars

\* The user presses keys that are held already, in the menu, in a lesson
\* and in an exam, faster than any timer.
HeldMidis == {60, 64}

NextHeld ==
  \/ \E midi \in HeldMidis : nextId < MaxHeldNoteOns /\ MouseDown(midi)
  \/ \E midi \in HeldMidis : Len(input) < MaxHeldNoteOns /\ playNoteHeld(midi)
  \/ \E midi \in HeldMidis : midi \in activeMidis /\ MouseUp(midi)
  \/ nextReq = 0 /\ handleStartTheory
  \/ nextReq = 0 /\ handleStartCheck
  \/ \E call \in pending : LessonResponse(call, 1)
  \/ \E call \in pending : ExamResponse(call, 1)

SpecHeld == Init /\ [][NextHeld]_vars

\* The user works with the computer keyboard in the menu and in a lesson;
\* key-down events arrive with and without auto-repeat, modifiers and a
\* text input as their target.
NextKeyDown ==
  \/ \E e \in KeyEvents :
       (e.code = "KeyZ" => nextId < MaxKeyDownNoteOns) /\ handleKeyDown(e)
  \/ KeyUpNote(KeyZ)
  \/ KeyUpShiftLeft
  \/ nextReq = 0 /\ handleStartTheory
  \/ \E call \in pending : LessonResponse(call, 1)
  \/ \E i \in 1..Len(timers) : SkipStepTimerFires(i)

SpecKeyDown == Init /\ [][NextKeyDown]_vars

\* ------------------------------------------------------- the tone engine
AppUnchanged ==
  UNCHANGED <<activeMidis, inputHistory, currentLesson, currentStepIndex,
              isStepComplete, canSkipStep, playedSequence, isExamMode,
              currentExam, examFeedback, examHintState, isLoading,
              isCancelledRef, pending, timers, nextId, toneCalls, nextReq, keyboard, applied>>

\* AudioService.initialize up to its first await, audioService.ts:25-28;
\* called by the click listener (App.tsx:537) and by AudioService.playNote
\* (audioService.ts:71).
initialize ==
  /\ Len(initCalls) < MaxInitCalls
  /\ IF initialized
       THEN UNCHANGED initCalls
       ELSE initCalls' = Append(initCalls, "Tone.start")
  /\ UNCHANGED <<initialized, reverb, filter, sampler, chains>>
  /\ AppUnchanged

\* Tone.start() resolves: the reverb is constructed and its impulse
\* response awaited, audioService.ts:30-38.
ToneStartResolves(call) ==
  /\ call \in 1..Len(initCalls)
  /\ initCalls[call] = "Tone.start"
  /\ reverb' = call
  /\ initCalls' = [initCalls EXCEPT ![call] = "reverb.generate"]
  /\ UNCHANGED <<initialized, filter, sampler, chains>>
  /\ AppUnchanged

\* reverb.generate() resolves: filter and sampler are constructed and the
\* flag is set, audioService.ts:40-58.
GenerateResolves(call) ==
  /\ call \in 1..Len(initCalls)
  /\ initCalls[call] = "reverb.generate"
  /\ filter' = call
  /\ sampler' = call
  /\ chains' = chains \cup {call}
  /\ initialized' = TRUE
  /\ initCalls' = [initCalls EXCEPT ![call] = "done"]
  /\ UNCHANGED reverb
  /\ AppUnchanged

NextAudio ==
  \/ initialize
  \/ \E call \in 1..Len(initCalls) : ToneStartResolves(call)
  \/ \E call \in 1..Len(initCalls) : GenerateResolves(call)

SpecAudio == Init /\ [][NextAudio]_vars

\* ------------------------------------------------- isPatternMatch alone
\* The arrays isPatternMatch is applied to: the held notes in every order
\* (Array.from of a Set holds no note twice), the patterns, the flag, and a
\* transposition of the held notes.
MatchMidis == {60, 61, 64, 67}
PatternIntervals == {-1, 0, 4, 7}
Transpositions == {-12, 5}

SeqsUpTo(S, n) == UNION {[1..k -> S] : k \in 0..n}

HeldArrays ==
  {a \in SeqsUpTo(MatchMidis, MaxHeld) : \A i, j \in 1..Len(a) : a[i] = a[j] => i = j}

InitMatch ==
  /\ InitApp
  /\ input \in [playedMidis : HeldArrays,
                pattern : SeqsUpTo(PatternIntervals, MaxPatternLen),
                strictLength : BOOLEAN,
                t : Transpositions]
  /\ output = <<>>

Transposed(playedMidis, t) == [i \in 1..Len(playedMidis) |-> playedMidis[i] + t]

ApplyIsPatternMatch ==
  /\ output = <<>>
  /\ output' =
       <<[match |-> isPatternMatchArray(input.playedMidis, input.pattern, input.strictLength),
          strict |-> isPatternMatchArray(input.playedMidis, input.pattern, TRUE),
          nonStrict |-> isPatternMatchArray(input.playedMidis, input.pattern, FALSE),
          transposed |-> isPatternMatchArray(Transposed(input.playedMidis, input.t),
                                             input.pattern, input.strictLength)]>>
  /\ UNCHANGED <<activeMidis, inputHistory, currentLesson, currentStepIndex,
                 isStepComplete, canSkipStep, playedSequence, isExamMode,
                 currentExam, examFeedback, examHintState, isLoading,
                 isCancelledRef, pending, timers, nextId, toneCalls, nextReq, keyboard, audio, input>>

SpecMatch == InitMatch /\ [][ApplyIsPatternMatch]_vars

\* ---------------------------------------------- normalizeNoteName alone
\* Note-name strings: every letter with every accidental, without an octave
\* and with a one-digit, a negative and a two-digit one; and strings the
\* pattern rejects.
NoteStrings ==
  {letter \o accidental \o octave :
     letter \in {"A", "B", "C", "D", "E", "F", "G"},
     accidental \in {"", "b", "#"},
     octave \in {"", "4", "-1", "10"}}
  \cup {"", "H4", "c4", "Cbb4", "C-", "Fb4b"}

InitNormalize ==
  /\ InitApp
  /\ input \in NoteStrings
  /\ output = <<>>

ApplyNormalizeNoteName ==
  /\ output = <<>>
  /\ output' = <<normalizeNoteString(input),
                 normalizeNoteString(normalizeNoteString(input))>>
  /\ UNCHANGED <<activeMidis, inputHistory, currentLesson, currentStepIndex,
                 isStepComplete, canSkipStep, playedSequence, isExamMode,
                 currentExam, examFeedback, examHintState, isLoading,
                 isCancelledRef, pending, timers, nextId, toneCalls, nextReq, keyboard, audio, input>>

SpecNormalize == InitNormalize /\ [][ApplyNormalizeNoteName]_vars

\* normalizeNoteName on a written note name and on the name playNote
\* gives to a MIDI note.
SpellingMidis == 0..MaxSpellingMidi

InitSpelling ==
  /\ InitApp
  /\ input \in [note : NoteStrings, midi : SpellingMidis]
  /\ output = <<>>

ApplySpelling ==
  /\ output = <<>>
  /\ output' = <<[normalized |-> normalizeNoteString(input.note),
                  played |-> noteName(input.midi),
                  playedNormalized |-> normalizeNoteString(noteName(input.midi))]>>
  /\ UNCHANGED <<activeMidis, inputHistory, currentLesson, currentStepIndex,
                 isStepComplete, canSkipStep, playedSequence, isExamMode,
                 currentExam, examFeedback, examHintState, isLoading,
                 isCancelledRef, pending, timers, nextId, toneCalls, nextReq, keyboard, audio, input>>

SpecSpelling == InitSpelling /\ [][ApplySpelling]_vars

\* ================================================================ claims
\* C1: in every reachable state at most one of the lesson session and the
\* exam session is non-null (the program keeps no third, quiz, session).
MutualExclusion == ~(LessonActive /\ ExamActive)

\* C1, its case: a lesson that started while an exam question with an
\* escalated hint phase was on screen (the response of an earlier lesson
\* request arrived during the exam).
LessonStartedOverExam == LessonActive /\ examHintState # "idle"

\* A lesson or an exam starts or ends.
ModeTransition ==
  <<currentLesson.id, currentLesson.obj, currentExam.id, currentExam.obj>>' #
    <<currentLesson.id, currentLesson.obj, currentExam.id, currentExam.obj>>

\* C2: every mode transition (a lesson or an exam starting or ending, Home)
\* leaves the held set and the ledger empty, the hint phase idle and the
\* feedback none.
ModeTransitionClears ==
  [][ModeTransition =>
       /\ activeMidis' = {}
       /\ inputHistory' = <<>>
       /\ examHintState' = "idle"
       /\ examFeedback' = "none"]_vars

\* The callbacks that write the ledger.
LedgerCallbackFires(i) ==
  \/ MistakeFadeFires(i)
  \/ MistakeClearFires(i)
  \/ ExamCleanupFires(i)
  \/ ReleaseFadeFires(i)
  \/ ReleaseRemoveFires(i)

\* The ledger entry id is still there and fades as it did.
Untouched(id) ==
  \A k \in 1..Len(inputHistory) :
    inputHistory[k].id = id =>
      \E n \in 1..Len(inputHistory') :
        /\ inputHistory'[n].id = id
        /\ inputHistory'[n].isFading = inputHistory[k].isFading

\* C3: a timer callback whose question or session has been superseded
\* neither fades nor removes a ledger entry created after the supersession.
StaleCallbackIsNoOp ==
  [][\A i \in 1..Len(timers) :
       (timers[i].stale /\ LedgerCallbackFires(i)) =>
         \A id \in timers[i].newer : Untouched(id)]_vars

\* The response of a call that was cancelled in flight arrives.
CancelledResponseArrives ==
  \E call \in pending : call.cancelled /\ call \notin pending'

\* C4: the response of a generation that was cancelled while in flight is
\* discarded: when it arrives, the session state does not change.
CancelledResponseDiscarded ==
  [][CancelledResponseArrives => SessionUnchanged]_vars

HintPhaseStep ==
  {<<"idle", "hintReady">>, <<"hintReady", "hintActive">>, <<"hintActive", "skipReady">>}

\* C5: the hint phase moves one step at a time along idle, hintReady,
\* hintActive, skipReady; every other change of it is a reset to idle.
HintPhaseOrder ==
  [][examHintState' # examHintState =>
       \/ examHintState' = "idle"
       \/ <<examHintState, examHintState'>> \in HintPhaseStep]_vars

\* C5, its case: the whole escalation has run on a question.
HintEscalated == ExamView /\ examHintState = "skipReady"

QuestionIndexChanges ==
  /\ ExamActive /\ ExamActive'
  /\ currentExam'.currentIndex # currentExam.currentIndex

\* The last-scheduled timer is a hint timer of the current question, and no
\* other hint or skip timer is pending.
FreshHintTimer(tms) ==
  /\ tms # <<>>
  /\ tms[Len(tms)].kind = "hint"
  /\ ~tms[Len(tms)].stale
  /\ Delay(tms[Len(tms)]) = 15000
  /\ \A i \in 1..(Len(tms) - 1) : tms[i].kind \notin {"hint", "skip"} /\ tms[i].stale

\* C6: when the question index changes the hint phase is idle afterwards
\* and the only pending hint timer is a fresh 15 s one, scheduled by that
\* change; no timer of the previous question's escalation is pending.
HintResetOnQuestionChange ==
  [][QuestionIndexChanges => examHintState' = "idle" /\ FreshHintTimer(timers')]_vars

\* C6, its case: the second question, reached without a note, so from a
\* first question whose hint phase had escalated to skipReady.
SecondQuestionAfterSkip ==
  /\ ExamView
  /\ currentExam.currentIndex = 1
  /\ examHintState = "idle"
  /\ nextId = 0

\* The note-ons of the run so far, all of them still in the ledger.
NoteOnsAre(midis) ==
  /\ nextId = Len(midis)
  /\ Len(inputHistory) = Len(midis)
  /\ \A k \in 1..Len(midis) : inputHistory[k].id = k /\ inputHistory[k].midi = midis[k]

NormalizedTargets ==
  LET targets == StepOf(currentLesson, currentStepIndex)[1].targets
  IN  [i \in 1..Len(targets) |-> normalizeNoteName(targets[i])]

CompletionIsTerminal ==
  [][(LessonActive /\ isStepComplete /\ UNCHANGED <<currentLesson, currentStepIndex>>) =>
       UNCHANGED <<isStepComplete, playedSequence>>]_vars

\* C8, its case: a stray third note-on came after the first step was
\* completed.
NoteOnAfterCompletion ==
  /\ LessonView /\ currentStepIndex = 0 /\ isStepComplete
  /\ \E k \in 1..Len(inputHistory) : inputHistory[k].id = 3 /\ inputHistory[k].midi = 65

\* C9: on a pitch question, while the question stays the same, feedback
\* becomes success exactly at the step after which the held set is
\* non-empty and strictly matches the pattern, and once success it stays
\* success.
SuccessOnStrictMatch ==
  [][(PitchControls /\ UNCHANGED currentExam) =>
       (examFeedback' = "success" <=>
          \/ examFeedback = "success"
          \/ /\ activeMidis' # {}
             /\ isPatternMatch(activeMidis', Question(currentExam).pattern, TRUE))]_vars

\* C9, its case: a note was released after the question was answered; the
\* held set no longer matches and the feedback is still success.
ReleasedAfterSuccess ==
  /\ PitchControls
  /\ examFeedback = "success"
  /\ activeMidis # {}
  /\ ~isPatternMatch(activeMidis, Question(currentExam).pattern, TRUE)

CountOf(tms, kind) == Cardinality({i \in 1..Len(tms) : tms[i].kind = kind})

NoteOn == nextId' = nextId + 1

\* C10: in exam mode a note-on schedules a ledger reset, due in 500 ms,
\* exactly when the resulting held set fails the non-strict match, answered
\* question or not; the first callback of a reset fades every entry and
\* schedules the second, due 500 ms later, which empties the ledger.
MistakeSchedulesReset ==
  [][/\ (NoteOn /\ ExamView) =>
          IF isPatternMatch(activeMidis', Question(currentExam).pattern, FALSE)
            THEN CountOf(timers', "mistakeFade") = CountOf(timers, "mistakeFade")
            ELSE /\ CountOf(timers', "mistakeFade") = CountOf(timers, "mistakeFade") + 1
                 /\ timers'[Len(timers')].kind = "mistakeFade"
                 /\ Delay(timers'[Len(timers')]) = 500
     /\ CountOf(timers', "mistakeFade") < CountOf(timers, "mistakeFade") =>
          /\ \A k \in 1..Len(inputHistory') : inputHistory'[k].isFading
          /\ CountOf(timers', "mistakeClear") = CountOf(timers, "mistakeClear") + 1
          /\ timers'[Len(timers')].kind = "mistakeClear"
          /\ Delay(timers'[Len(timers')]) = 500
     /\ CountOf(timers', "mistakeClear") < CountOf(timers, "mistakeClear") =>
          inputHistory' = <<>>]_vars

\* C10, its case: a wrong third note on an answered question, its reset
\* pending.
MistakeAfterSuccess ==
  /\ ExamView
  /\ examFeedback = "success"
  /\ activeMidis = {60, 64, 65}
  /\ NoteOnsAre(<<60, 64, 65>>) \/ NoteOnsAre(<<64, 60, 65>>)
  /\ \E i \in 1..Len(timers) : timers[i].kind = "mistakeFade" /\ ~timers[i].stale

\* C11: every MIDI number a physical key press produces lies in [0, 127],
\* whatever the base octave and the held shift modifiers.
KeyMidiInRange == \A midi \in activeMidis : midi \in 0..127

\* C12: baseOctave stays within [1, 7]; a navigation key changes it by
\* exactly 1, or leaves it unchanged where that would leave the range.
BaseOctaveClamped ==
  [][/\ baseOctave \in 1..7 /\ baseOctave' \in 1..7
     /\ KeyDownArrowLeft =>
          baseOctave' = (IF baseOctave = 1 THEN 1 ELSE baseOctave - 1)
     /\ KeyDownArrowRight =>
          baseOctave' = (IF baseOctave = 7 THEN 7 ELSE baseOctave + 1)
     /\ baseOctave' # baseOctave => KeyDownArrowLeft \/ KeyDownArrowRight]_vars

\* C12, its case: the navigation keys have taken the base octave to both
\* ends of its range (a note was played at the top, then the bottom
\* reached).
BaseOctaveAtBothEnds ==
  /\ baseOctave = 1
  /\ \E midi \in activeMidis : midi >= KeyMidi(7, 0)

\* What C13 says of a held set: some root of it puts every interval into
\* the pattern, and a strict match has as many notes as the pattern has
\* entries.
RootMatches(held, pattern, strict) ==
  /\ held # {}
  /\ \E root \in held : \A m \in held : (m - root) \in Range(pattern)
  /\ strict => Cardinality(held) = Len(pattern)

\* C13: isPatternMatch(held, pattern, strict) is true exactly when held is
\* non-empty, some root in held makes every interval a member of pattern
\* and, if strict, held has as many notes as pattern has entries; the
\* value depends on the set of held notes only, not on their order.
MatchIsRootSearch ==
  output # <<>> =>
    output[1].match = RootMatches(Range(input.playedMidis), input.pattern, input.strictLength)

\* C13, its case: G4, C4, E4 against [0, 4, 7], strict; the root is not
\* the first note listed.
RootFoundAfterFirst ==
  /\ output # <<>>
  /\ input.playedMidis = <<67, 60, 64>>
  /\ input.pattern = <<0, 4, 7>>
  /\ input.strictLength
  /\ output[1].match

\* C14: for every non-empty held set and every pattern a strict match
\* implies a non-strict match.
StrictImpliesNonStrict ==
  (output # <<>> /\ input.playedMidis # <<>>) =>
    (output[1].strict => output[1].nonStrict)

\* C14, its case: a strict match.
StrictMatchFound ==
  /\ output # <<>>
  /\ input.playedMidis = <<64, 60>>
  /\ input.pattern = <<0, 4>>
  /\ output[1].strict

\* C15: pattern matching is transposition invariant: the held notes moved
\* by t match a pattern exactly when the held notes do.
MatchIsTranspositionInvariant ==
  output # <<>> => output[1].transposed = output[1].match

\* C15, its case: a fifth that matches, moved across an octave boundary.
TransposedMatchFound ==
  /\ output # <<>>
  /\ input.playedMidis = <<60, 67>>
  /\ input.pattern = <<0, 7>>
  /\ input.t = 5
  /\ output[1].transposed

\* C16: normalizeNoteName is idempotent: normalizing a normalized note
\* name gives the same string, for every note-name string (letter A-G,
\* optional b or #, optional octave).
NormalizeIsIdempotent ==
  (output # <<>> /\ matchNoteName(input) # <<>>) => output[2] = output[1]

\* C16, its case: a flat spelling with an octave was rewritten, and the
\* rewritten name normalized again.
FlatNormalizedTwice ==
  /\ output # <<>>
  /\ input = "Fb-1"
  /\ output[1] = "E-1"
  /\ output[2] = "E-1"

\* C17: the Input History Ledger never holds more than 10 entries in any
\* reachable state, after any sequence of note-ons, note-offs and timer
\* firings.
LedgerBounded == Len(inputHistory) <= HistoryLimit

\* C17, its case: an eleventh note was appended to a full ledger and the
\* oldest entry left it.
EleventhNoteDropsOldest ==
  /\ nextId > HistoryLimit
  /\ Len(inputHistory) = HistoryLimit
  /\ inputHistory[1].id = 2
  /\ inputHistory[HistoryLimit].id = nextId

\* C18: navigating to a lesson step that was already completed shows that
\* step as already complete, so that it can be advanced without replaying
\* its targets. Under SpecReplay every step behind the current one was
\* completed by playing it.
CompletedStepStaysComplete ==
  [][(LessonActive /\ LessonActive' /\ currentLesson' = currentLesson
        /\ currentStepIndex' < currentStepIndex)
       => isStepComplete']_vars

\* C19: the hint phase leaves idle for hintReady only while the active
\* exam question is not of the discrete-choice (quiz) type: while a
\* quiz-type question is active the hint phase stays idle.
QuizKeepsHintIdle ==
  (isExamMode /\ ExamActive /\ Question(currentExam).type = "quiz")
    => examHintState = "idle"

\* The step on display changes, or the step on display completes.
StepChangesOrCompletes ==
  \/ currentLesson' # currentLesson
  \/ currentStepIndex' # currentStepIndex
  \/ isStepComplete' # isStepComplete

\* C20: the lesson manual override (canSkipStep) becomes true only by the
\* 30 s timer of the step on display, which is incomplete; it is false
\* again immediately after any step change or step completion, and the
\* only override timer then pending is a fresh 30 s one for the new step,
\* scheduled last, and only if that step is on display and incomplete: the
\* grace period of one step never unlocks the override on another step.
ManualOverrideAfterGrace ==
  [][/\ (canSkipStep' /\ ~canSkipStep) =>
          /\ LessonView /\ ~isStepComplete
          /\ ~StepChangesOrCompletes
          /\ CountOf(timers, "skipStep") = 1
          /\ CountOf(timers', "skipStep") = 0
          /\ \A i \in 1..Len(timers) :
                timers[i].kind = "skipStep" => Delay(timers[i]) = 30000
     /\ StepChangesOrCompletes =>
          /\ ~canSkipStep'
          /\ IF LessonActive' /\ ~isStepComplete'
               THEN /\ CountOf(timers', "skipStep") = 1
                    /\ timers'[Len(timers')].kind = "skipStep"
               ELSE CountOf(timers', "skipStep") = 0
     /\ canSkipStep' => LessonActive' /\ ~isStepComplete'
    ]_vars

\* C20, its case: the second step, reached without a note, so by the
\* override of the first step; the override is locked again and its timer
\* runs anew.
OverrideLockedOnNextStep ==
  /\ LessonView
  /\ currentStepIndex = 1
  /\ nextId = 0
  /\ ~canSkipStep
  /\ CountOf(timers, "skipStep") = 1

\* The step or the lesson on display changes; the question or the exam
\* changes; the hint is revealed.
StepAdvances == currentStepIndex' # currentStepIndex \/ currentLesson' # currentLesson

QuestionAdvances == currentExam' # currentExam \/ isExamMode' # isExamMode

HintRevealed == examHintState' = "hintActive" /\ examHintState # "hintActive"

\* C21: the Enter key advances a lesson step only when the step is
\* complete or the manual override is unlocked, advances an exam question
\* only when feedback is success or the hint phase is skipReady, reveals
\* the hint only when the hint phase is hintReady, and in every other
\* state changes nothing.
EnterIsGuarded ==
  [][KeyDownEnter =>
       /\ StepAdvances => LessonActive /\ (isStepComplete \/ canSkipStep)
       /\ QuestionAdvances =>
            isExamMode /\ (examFeedback = "success" \/ examHintState = "skipReady")
       /\ HintRevealed => isExamMode /\ examHintState = "hintReady"
       /\ ~(\/ LessonActive /\ (isStepComplete \/ canSkipStep)
            \/ isExamMode /\ examFeedback = "success"
            \/ isExamMode /\ examHintState \in {"hintReady", "skipReady"})
            => UNCHANGED vars
    ]_vars

\* C21, its case: Enter took the exam to its second question after a
\* success, whose cleanup is still pending.
EnterAfterSuccess ==
  /\ ExamView
  /\ currentExam.currentIndex = 1
  /\ \E i \in 1..Len(timers) : timers[i].kind = "examCleanup"

\* C22: advancing from question i of an exam with n questions yields
\* question i+1 of the same exam when i+1 < n, and when i is the last
\* question it ends the exam session and returns to the menu (no exam,
\* no lesson).
ExamAdvances ==
  [][handleNextExamQuestion =>
       LET i == currentExam.currentIndex
           n == Len(Questions(currentExam))
       IN  IF i + 1 < n
             THEN /\ ExamView'
                  /\ currentExam' = [currentExam EXCEPT !.currentIndex = i + 1]
             ELSE /\ MenuView'
                  /\ ~isExamMode'
                  /\ currentExam' = NoExam
                  /\ ~LessonActive'
    ]_vars

\* C22, its case: the exam was left from its last question, on which a
\* note had just been played.
ExamLeftAfterLastQuestion ==
  /\ MenuView
  /\ ~isExamMode
  /\ nextReq = 1
  /\ \E i \in 1..Len(timers) : timers[i].kind = "mistakeFade" /\ timers[i].stale

\* The content provider answers a lesson or an exam request with null.
NullResponse ==
  \E call \in pending : LessonResponse(call, 0) \/ ExamResponse(call, 0)

\* C23: when the content provider returns null for a lesson or exam
\* request, no session is started, the session state is unchanged (the
\* user stays in the menu) and the loading flag is false afterwards.
NullResponseStartsNothing ==
  [][NullResponse =>
       /\ UNCHANGED <<activeMidis, inputHistory, currentLesson, currentStepIndex,
                      isStepComplete, canSkipStep, playedSequence, isExamMode,
                      currentExam, examFeedback, examHintState, timers>>
       /\ MenuView => MenuView'
       /\ ~isLoading'
    ]_vars

\* C23, its case: the only request made was answered, it was not
\* cancelled, and the menu is still shown.
NullResponseArrived ==
  /\ MenuView
  /\ nextReq = 1
  /\ pending = {}
  /\ ~isLoading
  /\ ~isCancelledRef
  /\ timers = <<>>

\* C24: the tone engine's initialize is idempotent: however many times it
\* is called, including calls that overlap while an earlier call is still
\* awaiting, the sampler/filter/reverb chain is constructed at most once.
ChainConstructedOnce == Cardinality(chains) <= 1

NoteSwitchedOn == CanonicalName(CHOOSE midi \in activeMidis' : midi \notin activeMidis)

\* C26: in lesson mode a step with a non-empty target list becomes
\* complete at a note-on exactly when the most recent len(targets)
\* note-ons made since the step was entered, taken as canonical
\* sharp-spelled names, equal the normalized target list position by
\* position; progress made on one step is discarded on every step change.
\* The played sequence is that window: empty when a step is entered, moved
\* by every note-on on an incomplete step, and by nothing else.
WindowSinceStepEntered ==
  [][/\ (LessonView /\ LessonView' /\ ~StepAdvances /\ ~isStepComplete /\ NoteOn) =>
          /\ playedSequence' =
               SliceLast(Append(playedSequence, NoteSwitchedOn), Len(NormalizedTargets))
          /\ isStepComplete' <=> playedSequence' = NormalizedTargets
     /\ (LessonView /\ LessonView' /\ ~StepAdvances /\ ~NoteOn) =>
          UNCHANGED <<playedSequence, isStepComplete>>
     /\ (StepAdvances /\ LessonView') =>
          playedSequence' = <<>> /\ ~isStepComplete'
    ]_vars

\* C26, its case: the second step, target Fb4, was entered after the
\* first was played, and completed by the note-on E4.
FlatTargetCompleted ==
  /\ LessonView
  /\ currentStepIndex = 1
  /\ isStepComplete
  /\ playedSequence = << <<"E", 4>> >>
  /\ nextId = 3

\* The held set that the key-up of a physical key would leave now.
HeldAfterKeyUp(semitone) ==
  stopNotes([active |-> activeMidis, fb |-> examFeedback,
             hist |-> inputHistory, tms |-> timers], KeyUpMidis(semitone)).active

\* C27: the key-up of a physical key removes from the HeldNoteSet the note
\* that the key-down of that key inserted, even if baseOctave or the shift
\* modifiers changed between press and release, so that no note is stuck.
\* The keys of KeyCodes play different pitch classes: a held note is the
\* note of the key with its pitch class, and the key-up of that key, in
\* whatever state it comes, must take the note out of the held set.
KeyUpRemovesNote ==
  \A semitone \in KeyCodes :
    \A midi \in activeMidis :
      midi % 12 = semitone % 12 => midi \notin HeldAfterKeyUp(semitone)

\* The ledger entries of midi that are not released.
Unreleased(hist, midi) ==
  {i \in 1..Len(hist) : hist[i].midi = midi /\ ~hist[i].isReleased}

\* C28: releasing one physical key removes from the HeldNoteSet and
\* releases in the ledger only the note that key produced: a note still
\* held by the pointer, the same pitch class one octave away, stays in
\* the HeldNoteSet and its ledger entry stays unreleased.
KeyUpLeavesOtherNotes ==
  [][(/\ KeyUpNote(KeyZ)
      /\ KeyMidi(baseOctave, KeyZ) \in activeMidis
      /\ PointerMidi \in activeMidis)
       => /\ PointerMidi \in activeMidis'
          /\ Unreleased(inputHistory', PointerMidi) = Unreleased(inputHistory, PointerMidi)
    ]_vars

\* The most recently appended unreleased entry of midi, 0 if there is none.
NewestUnreleased(hist, midi) ==
  IF Unreleased(hist, midi) = {} THEN 0
  ELSE CHOOSE i \in Unreleased(hist, midi) : \A j \in Unreleased(hist, midi) : j <= i

\* C29, as stated: a note-off for midi m marks as released exactly one
\* ledger entry, the most recently appended entry with midi m that is not
\* yet released, and leaves every other entry unchanged; if no such entry
\* exists the ledger is unchanged.
NoteOffReleasesOneEntry ==
  [][\A midi \in Midis :
       MouseUp(midi) =>
         inputHistory' =
           IF NewestUnreleased(inputHistory, midi) = 0 THEN inputHistory
           ELSE [inputHistory EXCEPT ![NewestUnreleased(inputHistory, midi)].isReleased = TRUE]
    ]_vars

\* C29, as the program has it: a note-off for midi m marks as released
\* exactly one ledger entry, the most recently appended unreleased entry
\* with midi m, and removes or reorders none. The status and fading of
\* the entries are unchanged unless, in exam mode, the notes still held
\* after the note-off answer the question: then the unreleased entries of
\* the held notes are marked success and every other entry, the released
\* one included, is marked fading.
NoteOffReleasesNewest ==
  [][\A midi \in Midis :
       MouseUp(midi) =>
         LET last == NewestUnreleased(inputHistory, midi)
             answered == examFeedback' = "success" /\ examFeedback # "success"
         IN  /\ Len(inputHistory') = Len(inputHistory)
             /\ \A k \in 1..Len(inputHistory) :
                  LET old == inputHistory[k]
                      new == inputHistory'[k]
                  IN  /\ new.id = old.id /\ new.midi = old.midi
                      /\ new.isReleased = (old.isReleased \/ k = last)
                      /\ IF ~answered
                           THEN new.status = old.status /\ new.isFading = old.isFading
                         ELSE IF old.midi \in activeMidis' /\ ~old.isReleased
                           THEN new.status = "success" /\ new.isFading = old.isFading
                         ELSE new.status = old.status /\ new.isFading
    ]_vars

\* C29, its case: C4, F4 and E4 were held on the question with pattern
\* [0, 4] and the note-off of F4 answered it.
AnsweredByNoteOff ==
  /\ PitchControls
  /\ examFeedback = "success"
  /\ activeMidis = {60, 64}
  /\ \E k \in 1..Len(inputHistory) :
       /\ inputHistory[k].midi = 65
       /\ inputHistory[k].isReleased
       /\ inputHistory[k].isFading
  /\ \E k \in 1..Len(inputHistory) :
       inputHistory[k].midi = 64 /\ inputHistory[k].status = "success"

IdsOf(hist) == {hist[k].id : k \in 1..Len(hist)}

InLedger(id) == \E k \in 1..Len(inputHistory) : inputHistory[k].id = id

ReleasedInLedger(id) ==
  \E k \in 1..Len(inputHistory) :
    inputHistory[k].id = id /\ inputHistory[k].isReleased

EntryIds == 1..MaxEvictionNoteOns

\* C30: every ledger entry that has been released is eventually deleted.
\* Its eviction waits 4000 ms after the release, then marks the entry
\* fading and waits 500 ms more; the first callback changes no other entry
\* and the second removes no other entry.
ReleasedIsEvicted ==
  /\ \A id \in EntryIds : ReleasedInLedger(id) ~> ~InLedger(id)
  /\ [][\A midi \in Midis :
          (MouseUp(midi) /\ NewestUnreleased(inputHistory, midi) # 0) =>
            /\ Len(timers') = Len(timers) + 1
            /\ timers'[Len(timers')].kind = "releaseFade"
            /\ timers'[Len(timers')].id =
                 inputHistory[NewestUnreleased(inputHistory, midi)].id
            /\ Delay(timers'[Len(timers')]) = 4000
       ]_vars
  /\ [][\A i \in 1..Len(timers) :
          ReleaseFadeFires(i) =>
            /\ Len(inputHistory') = Len(inputHistory)
            /\ \A k \in 1..Len(inputHistory) :
                 inputHistory'[k] =
                   IF inputHistory[k].id = timers[i].id
                     THEN [inputHistory[k] EXCEPT !.isFading = TRUE]
                     ELSE inputHistory[k]
            /\ timers'[Len(timers')].kind = "releaseRemove"
            /\ timers'[Len(timers')].id = timers[i].id
            /\ Delay(timers'[Len(timers')]) = 500
       ]_vars
  /\ [][\A i \in 1..Len(timers) :
          ReleaseRemoveFires(i) =>
            /\ IdsOf(inputHistory') = IdsOf(inputHistory) \ {timers[i].id}
            /\ \A k \in 1..Len(inputHistory') :
                 \E j \in 1..Len(inputHistory) : inputHistory'[k] = inputHistory[j]
       ]_vars

\* C30, its case: the eviction of the first of two released entries has
\* run to its end and the second entry, fading, is still in the ledger.
FirstOfTwoEvicted ==
  /\ Len(inputHistory) = 1
  /\ inputHistory[1].id = 2
  /\ inputHistory[1].isReleased /\ inputHistory[1].isFading
  /\ nextId = 2
  /\ \A i \in 1..Len(timers) : timers[i].id # 1

\* The ledger entry a note-on has appended.
Newest(hist) == hist[Len(hist)]

MatchingIds(step, last) == (last - Len(step.targets) + 1)..last

\* C32: when a note-on completes a lesson step, the ledger entries of the
\* note-ons that formed the matching target sequence have status success,
\* and every other entry is marked fading and keeps its status.
SuccessMarksMatchingNotes ==
  [][\A midi \in Midis :
       (MouseDown(midi) /\ isStepComplete' /\ ~isStepComplete) =>
         LET step == StepOf(currentLesson, currentStepIndex)[1]
             matching == MatchingIds(step, nextId')
         IN  \A k \in 1..Len(inputHistory') :
               IF inputHistory'[k].id \in matching
                 THEN inputHistory'[k].status = "success"
                 ELSE /\ inputHistory'[k].isFading
                      /\ \E j \in 1..Len(inputHistory) :
                           /\ inputHistory[j].id = inputHistory'[k].id
                           /\ inputHistory[j].status = inputHistory'[k].status
    ]_vars

\* C33: in lesson mode the ledger entry created by a note-on has status
\* success exactly when the canonical name of the note, with its octave,
\* is the normalized form of some target of the current step, at any
\* position and whatever the sequence progress is; otherwise neutral.
TargetNoteIsSuccess ==
  [][\A midi \in Midis :
       (MouseDown(midi) /\ LessonView) =>
         LET targets == StepOf(currentLesson, currentStepIndex)[1].targets
             normalized == {normalizeNoteName(targets[k]) : k \in 1..Len(targets)}
             new == Newest(inputHistory')
         IN  /\ new.midi = midi
             /\ new.status = IF CanonicalName(midi) \in normalized
                                THEN "success" ELSE "neutral"
    ]_vars

\* C33, its cases: E4 played first on the step [C4, E4], and E4 played
\* for the target Fb4.
SecondTargetPlayedFirst ==
  /\ LessonView
  /\ currentStepIndex = 0
  /\ playedSequence = << <<"E", 4>> >>
  /\ Len(inputHistory) = 1
  /\ inputHistory[1].midi = 64
  /\ inputHistory[1].status = "success"

HintTimerPending ==
  \E i \in 1..Len(timers) : timers[i].kind \in {"hint", "skip"}

\* C34: while the exam feedback is success the hint phase does not
\* change. No hint timer is pending, and a step that changes the hint
\* phase is one that leaves the question and resets the feedback.
HintFrozenOnSuccess ==
  /\ [](examFeedback = "success" => ~HintTimerPending)
  /\ [][examFeedback = "success" =>
          \/ examHintState' = examHintState
          \/ /\ examFeedback' = "none"
             /\ examHintState' = "idle"
             /\ currentExam' # currentExam
       ]_vars

\* C34, its case: the question was answered while the hint was shown, and
\* the keys were released afterwards.
AnsweredWithHintShown ==
  /\ PitchControls
  /\ examFeedback = "success"
  /\ examHintState = "hintActive"
  /\ activeMidis = {}
  /\ Len(inputHistory) = 2

OnEmptyStep ==
  /\ LessonView
  /\ Len(StepOf(currentLesson, currentStepIndex)[1].targets) = 0

\* C35: a lesson step whose target list is empty is never marked
\* complete, whatever notes are played. It is left forward only by the
\* manual override, and otherwise by back navigation or by leaving the
\* lesson.
EmptyStepNeverCompletes ==
  /\ [](OnEmptyStep => ~isStepComplete)
  /\ [][OnEmptyStep =>
          \/ currentLesson' = currentLesson /\ currentStepIndex' = currentStepIndex
          \/ /\ currentLesson' = currentLesson
             /\ currentStepIndex' = currentStepIndex + 1
             /\ canSkipStep
          \/ currentLesson' = currentLesson /\ currentStepIndex' = currentStepIndex - 1
          \/ currentLesson' = NoLesson
       ]_vars

\* C35, its case: three notes were played on the step without targets.
ThreeNotesOnEmptyStep ==
  /\ OnEmptyStep
  /\ Len(playedSequence) = 3
  /\ ~isStepComplete

\* C36: for every note name made of a letter A-G, an optional b or # and
\* an optional octave, normalizeNoteName returns one of the 12 canonical
\* sharp-spelled names followed by the same octave text, a canonical
\* spelling being returned as it is; and the name playNote gives to a
\* MIDI note is a fixed point of normalizeNoteName.
NormalizeGivesCanonical ==
  output # <<>> =>
    /\ matchNoteName(input.note) # <<>> =>
         LET name == matchNoteName(input.note)[1]
             octave == matchNoteName(input.note)[2]
         IN  /\ \E canonical \in Range(NOTES) :
                  output[1].normalized = canonical \o octave
             /\ name \in Range(NOTES) => output[1].normalized = input.note
    /\ matchNoteName(output[1].played) # <<>>
    /\ matchNoteName(output[1].played)[1] \in Range(NOTES)
    /\ output[1].playedNormalized = output[1].played

\* C36, its case: Cb with a two-digit octave, and the MIDI note 1, whose
\* name has a negative octave.
FlatAndLowestSharp ==
  /\ output # <<>>
  /\ input.note = "Cb10"
  /\ output[1].normalized = "B10"
  /\ input.midi = 1
  /\ output[1].played = "C#-1"
  /\ output[1].playedNormalized = "C#-1"

\* C37: a note-on for a MIDI value that is already held changes nothing:
\* the held set, the ledger, the lesson progress and the exam feedback
\* are unchanged, no timer is scheduled and the tone engine is not
\* called.
HeldNoteOnChangesNothing ==
  [][\A midi \in Midis :
       (midi \in activeMidis /\ (playNote(midi) \/ playNoteHeld(midi))) =>
         UNCHANGED <<activeMidis, inputHistory, playedSequence, isStepComplete,
                     examFeedback, examHintState, timers, nextId, toneCalls>>
    ]_vars

\* C37, its case: C4 is held on the first step of the lesson, and a
\* second note-on of C4 has arrived.
HeldKeyPressedAgain ==
  /\ LessonView
  /\ activeMidis = {60}
  /\ input = <<60>>
  /\ Len(inputHistory) = 1
  /\ playedSequence = << <<"C", 4>> >>
  /\ toneCalls = 1

\* C38: a key-down event that is an auto-repeat, carries Ctrl, Meta or
\* Alt, or is targeted at a text input changes no state: it plays no
\* note, does not change baseOctave or the shift state, and does not
\* advance a step or question.
FilteredKeyDownChangesNothing ==
  [][\A e \in KeyEvents :
       (handleKeyDown(e)
          /\ (e.repeat \/ e.modifier \in {"ctrl", "meta", "alt"} \/ e.targetIsInput)) =>
         UNCHANGED <<activeMidis, inputHistory, currentLesson, currentStepIndex,
                     isStepComplete, canSkipStep, playedSequence, isExamMode,
                     currentExam, examFeedback, examHintState, timers, nextId,
                     toneCalls, baseOctave, shiftLeftPressed, shiftRightPressed>>
    ]_vars

\* C38, its case: Enter auto-repeats while the manual override of a
\* lesson step is available; the step is still the first one.
EnterRepeatedOnOverride ==
  /\ LessonView
  /\ canSkipStep
  /\ currentStepIndex = 0
  /\ input = <<"Enter">>

\* C39: whenever a lesson with at least one step is active,
\* 0 <= currentStepIndex < number of steps, and whenever an exam with at
\* least one question is active, 0 <= currentIndex < number of questions,
\* after any sequence of next, previous, skip and Enter actions.
IndicesInRange ==
  /\ (LessonActive /\ Len(Steps(currentLesson)) >= 1) =>
       (0 <= currentStepIndex /\ currentStepIndex < Len(Steps(currentLesson)))
  /\ (ExamActive /\ Len(Questions(currentExam)) >= 1) =>
       (0 <= currentExam.currentIndex
          /\ currentExam.currentIndex < Len(Questions(currentExam)))

\* C39, its case: the last step of a lesson is on screen.
LastStepShown ==
  /\ LessonView
  /\ currentStepIndex = Len(Steps(currentLesson)) - 1
  /\ currentStepIndex > 0

\* C40: the exam-mode flag and the exam session are consistent in every
\* reachable state: isExamMode is true exactly when currentExam is
\* non-null.
ExamModeIffExam == isExamMode <=> ExamActive

\* C40, its case: the exam was advanced to its second question while the
\* response of a lesson request was still on its way.
SecondQuestionShown ==
  /\ isExamMode
  /\ ExamActive
  /\ currentExam.currentIndex = 1
  /\ \E call \in pending : call.kind = "lesson"

====
